---- MODULE Spec2Model ----
(***************************************************************************)
(* The conversation workflow of src/telegram_handler.py: the stages of     *)
(* src/state_machine.py, the handler table of get_conversation_handler and *)
(* every stage handler, as a state machine over one user's conversation.   *)
(*                                                                         *)
(* Message texts are written without their emoji prefix: "Cancel" stands   *)
(* for the cancel button's label, "Yes, Confirm" for the confirm button,   *)
(* and so on.  The text positions, spelled with an en dash in the source,  *)
(* are written with "_" (top_center), so that they stay different from the *)
(* image positions (top-center).                                           *)
(***************************************************************************)
EXTENDS Integers, Sequences, FiniteSets, TLC

VARIABLES
    stage,      \* the conversation's state in the ConversationHandler
    user_data,  \* context.user_data: a dict, modelled as a function on its keys
    bot_data,   \* context.application.bot_data (the configured fonts)
    last,       \* the last update dispatched: the event, the handler, what it called and replied
    answered,   \* history: the user's latest answer to each yes/no question of this session
    budget,     \* the deviations the environment may still cause in this session
    sessions,   \* the conversations of users served in parallel: each one's state and user_data
    downloads,  \* the files of bot_data['downloads_path'], each with the session that wrote it
    media_counter,  \* the module's global media_counter
    authenticated   \* history: AuthManager.login has succeeded since start last ran

vars == <<stage, user_data, bot_data, last, answered, budget, sessions, downloads, media_counter,
          authenticated>>

-----------------------------------------------------------------------------
(* Bounds of the model *)

\* The user sends at most MaxSent media files during one intake.
MaxSent == 2

\* In one session (from one welcome message to the next) at most
\* MaxDeviations things go off the straight path: a collaborator call that
\* fails, a "No, Retry" or a "No, restart ...", an input outside the offer.
MaxDeviations == 1

\* In the intake specification the user sends media while fewer than
\* MaxIntake files are stored; the files after the first MaxSent are photos.
MaxIntake == 11
\* The files of the longest album of the end-to-end scenarios.
MaxScenario == 3
\* The media files the parallel sessions download in all.
MaxDownloads == 4

(* Program constants *)

MAX_AUTH_ATTEMPTS == 3
MaxAlbumFiles == 10
MinAlbumFiles == 2
MaxVideoDuration == 60
MaxEffects == 3

-----------------------------------------------------------------------------
(* Stages: src/state_machine.py.  END is ConversationHandler.END, the state *)
(* of a user with no conversation (before /start, after termination).      *)

END == "END"

States ==
    { "AUTH_2FA", "AUTH_SMS", "MEDIA_TYPE", "RECEIVE_MEDIA", "CONFIRM",
      "ASK_IMAGE_WATERMARK", "RECEIVE_IMAGE_WATERMARK",
      "CHOOSE_IMG_WATERMARK_POSITION", "CHOOSE_IMG_WATERMARK_SCALE",
      "CHOOSE_IMG_WATERMARK_OPACITY", "CONFIRM_IMG_WATERMARK",
      "ASK_TEXT_WATERMARK", "RECEIVE_TEXT", "CHOOSE_FONT", "CHOOSE_FONT_SIZE",
      "CHOOSE_COLOR", "CHOOSE_TEXT_POSITION", "CONFIRM_TEXT_WATERMARK",
      "ASK_ADD_MUSIC", "RECEIVE_MUSIC", "RECEIVE_MUSIC_START_TIME",
      "CONFIRM_MUSIC", "CONFIRM_COMBINED_MEDIA", "CONFIRM_FINAL_MEDIA",
      "ASK_VIDEO_EFFECTS", "CHOOSE_EFFECTS", "CONFIRM_EFFECTS", "CAPTION" }

-----------------------------------------------------------------------------
(* Python values *)

\* The dict user_data after clear().
EmptyDict == [k \in {} |-> 0]

Has(ud, k) == k \in DOMAIN ud

\* dict.get(k, d)
Get(ud, k, d) == IF k \in DOMAIN ud THEN ud[k] ELSE d

\* ud[k] = v
Put(ud, k, v) == [x \in (DOMAIN ud) \cup {k} |-> IF x = k THEN v ELSE ud[x]]

\* get_video_duration returns None when the clip cannot be read.
None == -1

\* A media file: the position at which it was downloaded (id), the extension
\* of its path, what FileValidator.validate finds in it, its duration as a
\* video, and what has been done to it since: the overlay layers and the
\* audio merged onto it (0: none, j: the artifact S1_j / S2_j / S3_j), whether
\* it was normalized, and the effects applied to it, in order.
File(id, ext, type, dur) ==
    [id |-> id, ext |-> ext, type |-> type, dur |-> dur,
     s1 |-> 0, s2 |-> 0, s3 |-> 0, norm |-> FALSE, fx |-> <<>>]

is_video_file(f) == f.ext \in {"mp4", "mov", "avi", "mkv"}

any_video(files) == \E i \in 1..Len(files) : is_video_file(files[i])

\* The result of a handler: the state it returns (or the one it leaves in
\* place), user_data as it leaves it, the collaborator calls it made, the
\* messages it sent and the reply keyboard of its last prompt.
Ret(next, ud, calls, msgs, kb) ==
    [next |-> next, ud |-> ud, calls |-> calls, msgs |-> msgs, kb |-> kb]

\* A handler that first did `calls` and sent `msgs`, and then returned r.
After(calls, msgs, r) ==
    [r EXCEPT !.calls = calls \o @, !.msgs = msgs \o @]

\* A handler that raises: the exception leaves the handler, ConversationHandler
\* sets no new state, what the handler had written to user_data stays and
\* nothing is sent by the handlers of this file.  st: the state the update
\* was dispatched in.
Raised(st, ud, calls) == Ret(st, ud, calls \o <<[op |-> "raise"]>>, <<>>, {})

-----------------------------------------------------------------------------
(* Updates *)

NoFile == [type |-> "none", dur |-> 0, wm |-> FALSE]

Text(t) == [kind |-> "text", text |-> t, file |-> NoFile]
Command(c) == [kind |-> "command", text |-> c, file |-> NoFile]
\* A photo; wm: its larger side is within 120..480 px.
Photo(wm) == [kind |-> "photo", text |-> "", file |-> [type |-> "image", dur |-> 0, wm |-> wm]]
\* A video of the given content type and duration.
Video(type, dur) == [kind |-> "video", text |-> "", file |-> [type |-> type, dur |-> dur, wm |-> FALSE]]
\* An animation (GIF); dur: the duration of the video it converts to.
Animation(dur) == [kind |-> "animation", text |-> "", file |-> [type |-> "gif", dur |-> dur, wm |-> FALSE]]
Audio == [kind |-> "audio", text |-> "", file |-> NoFile]

CancelText == "Cancel"

\* The words the handlers look for inside a text (Python's `in`).
Contains(t, w) ==
    CASE w = "Yes" -> t \in {"Yes", "Yes, continue", "Yes, Confirm", "Yes, looks good", "Yes, upload"}
      [] w = "No" -> t \in {"No", "No, Upload As Is", "No, Retry", "No, restart edits", "No, restart effects"}
      [] w = "Album" -> t = "Album"
      [] w = "Done" -> t \in {"Done", "Done Selecting"}
      [] w = "restart" -> t \in {"No, restart edits", "No, restart effects"}
      [] w = "Effects" -> t = "Add Video Effects"
      [] OTHER -> FALSE

\* int(text) on the numbers the keyboards offer.
IntOf(t) ==
    CASE t = "10" -> 10 [] t = "15" -> 15 [] t = "20" -> 20 [] t = "25" -> 25
      [] t = "30" -> 30 [] t = "35" -> 35 [] t = "40" -> 40 [] t = "45" -> 45
      [] t = "50" -> 50 [] t = "60" -> 60 [] t = "70" -> 70 [] t = "80" -> 80
      [] t = "90" -> 90 [] t = "100" -> 100

ImgPositions ==
    { "top-left", "top-center", "top-right", "middle-left", "middle-center",
      "middle-right", "bottom-left", "bottom-center", "bottom-right" }
Percents == {"50", "60", "70", "80", "90", "100"}
FontSizes == {"10", "15", "20", "25", "30", "35", "40", "45", "50"}
Colors == {"White", "Black", "Red", "Blue", "Yellow", "Green"}
TextPositions == {"top_center", "middle_center", "bottom_center"}
ConfirmRetry == {"Yes, Confirm", "No, Retry"}

\* filters.TEXT: any message with a text, commands included.
FilterText(ev) == ev.kind \in {"text", "command"}
\* filters.TEXT & ~filters.COMMAND
FilterTextNotCommand(ev) == ev.kind = "text"
\* filters.Regex of an anchored alternation: the text is one of S.
FilterRegex(ev, S) == ev.kind \in {"text", "command"} /\ ev.text \in S

\* The handler registered for each state (states={...}), "none" if the
\* update matches no handler of the state.
StateHandler(st, ev) ==
    CASE st = "AUTH_2FA" -> IF FilterTextNotCommand(ev) THEN "handle_2fa" ELSE "none"
      [] st = "AUTH_SMS" -> IF FilterTextNotCommand(ev) THEN "handle_sms" ELSE "none"
      [] st = "MEDIA_TYPE" ->
            IF FilterRegex(ev, {"Album", "Single"}) /\ ev.kind # "command"
            THEN "handle_media_type" ELSE "none"
      [] st = "RECEIVE_MEDIA" ->
            IF ev.kind \in {"photo", "video", "animation"} THEN "handle_media"
            ELSE IF FilterText(ev) /\ FilterRegex(ev, {"Done"}) THEN "process_media"
            ELSE "none"
      [] st = "CONFIRM" ->
            IF FilterRegex(ev, {"Yes, continue", "No, Upload As Is"}) /\ ev.kind # "command"
            THEN "handle_confirmation" ELSE "none"
      [] st = "ASK_IMAGE_WATERMARK" ->
            IF FilterRegex(ev, {"Yes", "No"}) THEN "ask_image_watermark" ELSE "none"
      [] st = "RECEIVE_IMAGE_WATERMARK" ->
            IF ev.kind = "photo" THEN "receive_image_watermark" ELSE "none"
      [] st = "CHOOSE_IMG_WATERMARK_POSITION" ->
            IF FilterRegex(ev, ImgPositions) THEN "handle_img_position" ELSE "none"
      [] st = "CHOOSE_IMG_WATERMARK_SCALE" ->
            IF FilterRegex(ev, Percents) THEN "handle_img_scale" ELSE "none"
      [] st = "CHOOSE_IMG_WATERMARK_OPACITY" ->
            IF FilterRegex(ev, Percents) THEN "generate_and_preview_image_watermark" ELSE "none"
      [] st = "CONFIRM_IMG_WATERMARK" ->
            IF FilterRegex(ev, ConfirmRetry) THEN "handle_img_watermark_confirmation" ELSE "none"
      [] st = "ASK_TEXT_WATERMARK" ->
            IF FilterRegex(ev, {"Yes", "No"}) THEN "handle_ask_text_watermark" ELSE "none"
      [] st = "RECEIVE_TEXT" -> IF FilterTextNotCommand(ev) THEN "receive_text" ELSE "none"
      [] st = "CHOOSE_FONT" -> IF FilterTextNotCommand(ev) THEN "handle_font" ELSE "none"
      [] st = "CHOOSE_FONT_SIZE" ->
            IF FilterRegex(ev, FontSizes) THEN "handle_font_size" ELSE "none"
      [] st = "CHOOSE_COLOR" -> IF FilterRegex(ev, Colors) THEN "handle_color" ELSE "none"
      [] st = "CHOOSE_TEXT_POSITION" ->
            IF FilterRegex(ev, TextPositions) THEN "generate_and_preview_text_watermark" ELSE "none"
      [] st = "CONFIRM_TEXT_WATERMARK" ->
            IF FilterRegex(ev, ConfirmRetry) THEN "handle_text_watermark_confirmation" ELSE "none"
      [] st = "ASK_ADD_MUSIC" -> IF FilterRegex(ev, {"Yes", "No"}) THEN "ask_add_music" ELSE "none"
      [] st = "RECEIVE_MUSIC" -> IF ev.kind = "audio" THEN "receive_music" ELSE "none"
      [] st = "RECEIVE_MUSIC_START_TIME" ->
            IF FilterTextNotCommand(ev) THEN "receive_music_start_time" ELSE "none"
      [] st = "CONFIRM_MUSIC" ->
            IF FilterRegex(ev, ConfirmRetry) THEN "handle_music_confirmation" ELSE "none"
      [] st = "CONFIRM_COMBINED_MEDIA" ->
            IF FilterRegex(ev, {"Yes, continue", "No, restart edits"})
            THEN "handle_combined_media_confirmation" ELSE "none"
      [] st = "CONFIRM_FINAL_MEDIA" ->
            IF FilterRegex(ev, {"Yes, looks good", "No, restart edits", "Add Video Effects"})
            THEN "handle_final_confirmation" ELSE "none"
      [] st = "ASK_VIDEO_EFFECTS" -> IF FilterText(ev) THEN "ask_video_effects" ELSE "none"
      [] st = "CHOOSE_EFFECTS" -> IF FilterTextNotCommand(ev) THEN "choose_effects" ELSE "none"
      [] st = "CONFIRM_EFFECTS" ->
            IF FilterRegex(ev, {"Yes, upload", "No, restart effects"})
            THEN "handle_effects_confirmation" ELSE "none"
      [] st = "CAPTION" -> IF FilterTextNotCommand(ev) THEN "handle_caption_and_upload" ELSE "none"
      [] OTHER -> "none"

\* fallbacks=[CommandHandler('cancel', cancel), MessageHandler(Regex(Cancel), cancel)]
Fallback(ev) ==
    IF (ev.kind = "command" /\ ev.text = "/cancel") \/ FilterRegex(ev, {CancelText})
    THEN "cancel" ELSE "none"

\* ConversationHandler's choice of the handler of an update: with
\* allow_reentry the entry points are tried first, in any state; then the
\* handlers of the current state; the fallbacks only when none of them
\* matches.  A user with no conversation is served by the entry points alone.
Handler(st, ev) ==
    IF ev.kind = "command" /\ ev.text = "/start" THEN "start"
    ELSE IF st = END THEN "none"
    ELSE IF StateHandler(st, ev) # "none" THEN StateHandler(st, ev)
    ELSE Fallback(ev)

\* The updates the conversation recognizes as "cancel".
CancelEvents == {Text(CancelText), Command("/cancel")}

-----------------------------------------------------------------------------
(* Authentication handlers *)

\* What AuthManager.login answers.
LoginOutcomes == {"ok", "2FA_REQUIRED", "SMS_REQUIRED", "failed"}

\* send_welcome_message without user_data.clear().
send_welcome_message_keeping(ud) ==
    Ret("MEDIA_TYPE", ud, <<[op |-> "clear_downloads"]>>,
        <<"welcome", "choose_mode">>, {"Album", "Single", CancelText})

send_welcome_message(ud) ==
    Ret("MEDIA_TYPE", EmptyDict, <<[op |-> "clear_downloads"]>>,
        <<"welcome", "choose_mode">>, {"Album", "Single", CancelText})

\* start without the reset of the attempt counter.
start_without_counter(ud, lg) ==
    LET call == <<[op |-> "login", code |-> FALSE]>>
    IN  IF lg = "ok" THEN After(call, <<"connected">>, send_welcome_message(ud))
        ELSE IF lg = "2FA_REQUIRED" THEN Ret("AUTH_2FA", ud, call, <<"enter_2fa">>, {})
        ELSE IF lg = "SMS_REQUIRED" THEN Ret("AUTH_SMS", ud, call, <<"enter_sms">>, {})
        ELSE Ret(END, ud, call, <<"login_failed">>, {})

start(ud, lg) ==
    LET ud1 == Put(ud, "auth_attempts", 0)
        call == <<[op |-> "login", code |-> FALSE]>>
    IN  IF lg = "ok" THEN After(call, <<"connected">>, send_welcome_message(ud1))
        ELSE IF lg = "2FA_REQUIRED" THEN Ret("AUTH_2FA", ud1, call, <<"enter_2fa">>, {})
        ELSE IF lg = "SMS_REQUIRED" THEN Ret("AUTH_SMS", ud1, call, <<"enter_sms">>, {})
        ELSE Ret(END, ud1, call, <<"login_failed">>, {})

cancel(ud) == After(<<>>, <<"cancelled">>, send_welcome_message(ud))

\* The attempt limit reached one submission early.
TooManyAttempts_AtLimit(n) == n >= MAX_AUTH_ATTEMPTS

\* The attempt limit of handle_2fa and handle_sms.
TooManyAttempts(n) == n > MAX_AUTH_ATTEMPTS

\* handle_2fa and handle_sms taking the cancel button's text for a code.
handle_code_without_cancel(ud, ev, lg, st) ==
    LET ud1 == Put(ud, "auth_attempts", ud["auth_attempts"] + 1)
        call == <<[op |-> "login", code |-> TRUE]>>
    IN  IF TooManyAttempts(ud1["auth_attempts"])
        THEN Ret(END, ud1, <<>>, <<"too_many_attempts">>, {})
        ELSE IF lg = "ok"
        THEN After(call, <<"connected">>, send_welcome_message(ud1))
        ELSE Ret(st, ud1, call, <<"incorrect_code">>, {})

\* handle_2fa and handle_sms differ in the state they stay in only.
handle_code(ud, ev, lg, st) ==
    IF ev.text = CancelText THEN cancel(ud)
    ELSE
        LET ud1 == Put(ud, "auth_attempts", ud["auth_attempts"] + 1)
            call == <<[op |-> "login", code |-> TRUE]>>
        IN  IF TooManyAttempts(ud1["auth_attempts"])
            THEN Ret(END, ud1, <<>>, <<"too_many_attempts">>, {})
            ELSE IF lg = "ok"
            THEN After(call, <<"connected">>, send_welcome_message(ud1))
            ELSE Ret(st, ud1, call, <<"incorrect_code">>, {})

handle_2fa(ud, ev, lg) == handle_code(ud, ev, lg, "AUTH_2FA")

handle_sms(ud, ev, lg) == handle_code(ud, ev, lg, "AUTH_SMS")

-----------------------------------------------------------------------------
(* Intake and validation *)

handle_media_type(ud, ev) ==
    LET mode == IF Contains(ev.text, "Album") THEN "album" ELSE "single"
        ud1 == Put(Put(ud, "mode", mode), "files", <<>>)
    IN  Ret("RECEIVE_MEDIA", ud1, <<>>, <<"send_media">>,
            IF mode = "album" THEN {"Done", CancelText} ELSE {CancelText})

\* The file download_media stores for a photo, video or animation message.
download_media(ev, n) ==
    File(n, IF ev.kind = "video" THEN "mp4" ELSE IF ev.kind = "animation" THEN "gif" ELSE "jpg",
         ev.file.type, ev.file.dur)

\* GIFConverter.convert: the video an animation becomes.
convert(f) == [f EXCEPT !.ext = "mp4", !.type = "video"]

\* The file process_media's loop reaches for one element: after conversion.
Validated(f) == IF f.type = "gif" THEN convert(f) ELSE f

\* A duration limit that rejects the longest video allowed.
TooLong_From60(d) == d >= MaxVideoDuration

\* The video is longer than process_media accepts.
TooLong(d) == d > MaxVideoDuration

\* "ok", or why process_media's loop stops at this file.
ValidationError(f) ==
    IF f.type \notin {"image", "video", "gif"} THEN "unsupported"
    ELSE IF Validated(f).type = "video" /\ Validated(f).dur = None THEN "unsupported"
    ELSE IF Validated(f).type = "video" /\ TooLong(Validated(f).dur) THEN "too_long"
    ELSE "ok"

ConfirmKeyboard == {"Yes, continue", "No, Upload As Is", CancelText}

\* The album is too small for process_media to validate it.
AlbumTooSmall(mode, files) == mode = "album" /\ Len(files) < MinAlbumFiles

\* process_media skipping the files that fail validation instead of
\* abandoning the batch.
process_media_keeping_valid(ud, lg) ==
    LET files == Get(ud, "files", <<>>)
        mode == Get(ud, "mode", "none")
        good == SelectSeq(files, LAMBDA f : ValidationError(f) = "ok")
        validated_files == [i \in 1..Len(good) |-> Validated(good[i])]
        calls == [i \in 1..Len(files) |-> [op |-> "validate", n |-> i]]
    IN  IF AlbumTooSmall(mode, files)
        THEN After(<<>>, <<"album_needs_2">>, start(ud, lg))
        ELSE IF validated_files = <<>>
        THEN After(calls, <<"starting_validation", "no_valid_files">>, start(ud, lg))
        ELSE Ret("CONFIRM", Put(ud, "processed", validated_files), calls,
                 <<"starting_validation", "validation_complete", "continue_editing">>,
                 ConfirmKeyboard)

process_media(ud, lg) ==
    LET files == Get(ud, "files", <<>>)
        mode == Get(ud, "mode", "none")
        bad == {i \in 1..Len(files) : ValidationError(files[i]) # "ok"}
        first == CHOOSE i \in bad : \A j \in bad : i <= j
        reached == IF bad # {} THEN first ELSE Len(files)
        calls == [i \in 1..reached |-> [op |-> "validate", n |-> i]]
        validated_files == [i \in 1..Len(files) |-> Validated(files[i])]
    IN  IF AlbumTooSmall(mode, files)
        THEN After(<<>>, <<"album_needs_2">>, start(ud, lg))
        ELSE IF bad # {}
        THEN After(calls, <<"starting_validation", ValidationError(files[first])>>, start(ud, lg))
        ELSE IF validated_files = <<>>
        THEN After(calls, <<"starting_validation", "no_valid_files">>, start(ud, lg))
        ELSE Ret("CONFIRM", Put(ud, "processed", validated_files), calls,
                 <<"starting_validation", "validation_complete", "continue_editing">>,
                 ConfirmKeyboard)

\* An album that takes one file more than the limit.
AlbumFull_OneMore(mode, files) == mode = "album" /\ Len(files) > MaxAlbumFiles

\* The album already holds as many files as handle_media accepts.
AlbumFull(mode, files) == mode = "album" /\ Len(files) >= MaxAlbumFiles

handle_media(ud, ev, lg) ==
    LET mode == Get(ud, "mode", "single")
        files == Get(ud, "files", <<>>)
        ud1 == Put(ud, "files", Append(files, download_media(ev, Len(files) + 1)))
    IN  IF AlbumFull(mode, files)
        THEN Ret("RECEIVE_MEDIA", Put(ud, "files", files), <<>>, <<"already_10">>, {})
        ELSE IF mode = "single" THEN process_media(ud1, lg)
        ELSE Ret("RECEIVE_MEDIA", ud1, <<>>, <<"received_file">>, {})

-----------------------------------------------------------------------------
(* Final normalization (defined here: the handlers below end in it) *)

\* VideoProcessor.process / ImageProcessor.process: the file, normalized.
process(f) == [f EXCEPT !.norm = TRUE]

\* The first choice row with the effects button whatever the files are.
FinalKeyboard_AlwaysEffects(final_files) ==
    {"Yes, looks good", "No, restart edits", "Add Video Effects", CancelText}

\* The first choice row of the final confirmation.
FinalKeyboard(final_files) ==
    {"Yes, looks good", "No, restart edits", CancelText}
        \cup (IF any_video(final_files) THEN {"Add Video Effects"} ELSE {})

\* start_final_processing keeping the files normalized before the failure.
start_final_processing_partial(ud, nf) ==
    LET src == ud["combined_files"]
        n == IF nf \in 1..Len(src) THEN nf - 1 ELSE Len(src)
        calls == [i \in 1..n |-> [op |-> "process", n |-> i]]
        final_files == [i \in 1..n |-> process(src[i])]
    IN  Ret("CONFIRM_FINAL_MEDIA", Put(ud, "final_files", final_files), calls,
            <<"final_processing", "final_processing_error", "final_result">>,
            FinalKeyboard(final_files))

\* nf: the first file whose normalization raises (0: none does).
start_final_processing(ud, nf) ==
    LET src == ud["combined_files"]
        n == Len(src)
        reached == IF nf \in 1..n THEN nf ELSE n
        calls == [i \in 1..reached |-> [op |-> "process", n |-> i]]
        final_files == [i \in 1..n |-> process(src[i])]
    IN  IF nf \in 1..n
        THEN After(calls, <<"final_processing", "final_processing_error">>, cancel(ud))
        ELSE Ret("CONFIRM_FINAL_MEDIA", Put(ud, "final_files", final_files), calls,
                 <<"final_processing", "final_result">>, FinalKeyboard(final_files))

\* handle_confirmation taking every answer for "Yes".
handle_confirmation_always_editing(ud, ev, nf) ==
    Ret("ASK_IMAGE_WATERMARK", ud, <<>>, <<"ask_image_watermark">>, {"Yes", "No", CancelText})

handle_confirmation(ud, ev, nf) ==
    IF Contains(ev.text, "Yes")
    THEN Ret("ASK_IMAGE_WATERMARK", ud, <<>>, <<"ask_image_watermark">>, {"Yes", "No", CancelText})
    ELSE start_final_processing(Put(ud, "combined_files", ud["processed"]), nf)

-----------------------------------------------------------------------------
(* Combination *)

\* The start times MusicAdder.trim_audio can parse (MM:SS).
WellFormedTime(t) == t \in {"00:05", "01:23"}

\* Every file given the first layer of the list.
LayerAt_First(layers, i) == IF layers = <<>> THEN 0 ELSE layers[1]

\* s1_layers[i] if i < len(s1_layers) else None, with i counted from 1.
LayerAt(layers, i) == IF i <= Len(layers) THEN layers[i] ELSE 0

\* combine_changes never taking the batch for unedited.
NoEdits_Never(s1_layers, s2_layers, music_confirmed) == FALSE

\* No layer and no confirmed music: nothing to combine.
NoEdits(s1_layers, s2_layers, music_confirmed) ==
    ~(s1_layers # <<>> \/ s2_layers # <<>> \/ music_confirmed)

\* Whether combine_changes trims the audio for this file.
WantsAudio(music_confirmed, f) == music_confirmed /\ is_video_file(f) /\ f.dur # None /\ f.dur # 0

\* tf: the files whose audio trim raises; mf: the first file whose merge
\* raises (0: none); nf: as in start_final_processing.
combine_changes(ud, tf, mf, nf) ==
    LET s1_layers == Get(ud, "S1_layers", <<>>)
        s2_layers == Get(ud, "S2_layers", <<>>)
        music_confirmed == Get(ud, "music_confirmed", FALSE)
        base_files == Get(ud, "processed", <<>>)
        n == Len(base_files)
        trims(i) == WantsAudio(music_confirmed, base_files[i])
        trimmed(i) == trims(i) /\ i \notin tf /\ WellFormedTime(ud["music_start_time"])
        audio(i) == IF trimmed(i) THEN i ELSE 0
        reached == IF mf \in 1..n THEN mf ELSE n
        callsOf(i) ==
            (IF trims(i)
             THEN <<[op |-> "trim_audio", audio |-> ud["music_path"], dur |-> base_files[i].dur,
                     start |-> ud["music_start_time"], out |-> i, ok |-> trimmed(i)]>>
             ELSE <<>>)
            \o <<[op |-> "merge", base |-> base_files[i].id, s1 |-> LayerAt(s1_layers, i),
                  s2 |-> LayerAt(s2_layers, i), s3 |-> audio(i)]>>
        Calls[i \in 0..n] == IF i = 0 THEN <<>> ELSE Calls[i - 1] \o callsOf(i)
        combined_files ==
            [i \in 1..n |-> [base_files[i] EXCEPT !.s1 = LayerAt(s1_layers, i),
                                                  !.s2 = LayerAt(s2_layers, i),
                                                  !.s3 = audio(i)]]
    IN  IF NoEdits(s1_layers, s2_layers, music_confirmed)
        THEN After(<<>>, <<"applying_edits", "no_edits">>,
                   start_final_processing(Put(ud, "combined_files", base_files), nf))
        ELSE IF mf \in 1..n
        THEN After(Calls[reached], <<"applying_edits", "combine_error">>, cancel(ud))
        ELSE Ret("CONFIRM_COMBINED_MEDIA", Put(ud, "combined_files", combined_files), Calls[n],
                 <<"applying_edits", "edits_applied", "edits_correct">>,
                 {"Yes, continue", "No, restart edits", CancelText})

handle_combined_media_confirmation(ud, ev, nf) ==
    IF Contains(ev.text, "No")
    THEN Ret("ASK_IMAGE_WATERMARK", ud, <<>>, <<"restarting", "ask_image_watermark">>,
             {"Yes", "No", CancelText})
    ELSE start_final_processing(ud, nf)

-----------------------------------------------------------------------------
(* Music *)

\* _check_and_ask_music asking whatever the batch holds.
check_and_ask_music_always_asking(ud, tf, mf, nf) ==
    Ret("ASK_ADD_MUSIC", ud, <<>>, <<"ask_add_music">>, {"Yes", "No", CancelText})

_check_and_ask_music(ud, tf, mf, nf) ==
    IF ~any_video(Get(ud, "processed", <<>>))
    THEN After(<<>>, <<"no_videos_skip_music">>, combine_changes(ud, tf, mf, nf))
    ELSE Ret("ASK_ADD_MUSIC", ud, <<>>, <<"ask_add_music">>, {"Yes", "No", CancelText})

ask_add_music(ud, ev, tf, mf, nf) ==
    IF Contains(ev.text, "Yes")
    THEN Ret("RECEIVE_MUSIC", ud, <<>>, <<"send_music">>, {})
    ELSE combine_changes(ud, tf, mf, nf)

receive_music(ud, ev) ==
    IF ev.kind # "audio"
    THEN Ret("RECEIVE_MUSIC", ud, <<>>, <<"not_audio">>, {})
    ELSE Ret("RECEIVE_MUSIC_START_TIME", Put(ud, "music_path", "music.mp3"),
             <<[op |-> "download", out |-> "music.mp3"]>>, <<"enter_start_time">>, {})

\* What MusicAdder.trim_audio can do with a start time: a malformed one is
\* rejected with ValueError; otherwise it trims, or fails for another reason.
TrimOutcomes(t) == IF WellFormedTime(t) THEN {"ok", "error"} ELSE {"ValueError"}

\* The preview file S3_preview.mp3, among the audio artifacts: 0 is no
\* audio, i the trimmed audio S3_i.mp3 of file i.
S3_preview == -2

\* The preview cut to the shortest video.
PreviewDuration_Shortest(videos) ==
    LET durs == {videos[i].dur : i \in 1..Len(videos)} \ {None}
    IN  IF durs = {} THEN 60 ELSE CHOOSE d \in durs : \A e \in durs : d <= e

\* max(durations) if durations else 60.0
PreviewDuration(videos) ==
    LET durs == {videos[i].dur : i \in 1..Len(videos)} \ {None}
    IN  IF durs = {} THEN 60 ELSE CHOOSE d \in durs : \A e \in durs : e <= d

\* The list comprehension [p for p in xs if is_video_file(p)].
RECURSIVE VideosOf(_)
VideosOf(xs) ==
    IF xs = <<>> THEN <<>>
    ELSE (IF is_video_file(Head(xs)) THEN <<Head(xs)>> ELSE <<>>) \o VideosOf(Tail(xs))

\* tr: what the preview trim does, one of TrimOutcomes(ev.text).
receive_music_start_time(ud, ev, tr, tf, mf, nf) ==
    IF ev.text = CancelText THEN cancel(ud)
    ELSE
        LET ud1 == Put(ud, "music_start_time", ev.text)
            video_paths == VideosOf(Get(ud1, "processed", <<>>))
            call == <<[op |-> "trim_audio", audio |-> ud1["music_path"],
                       dur |-> PreviewDuration(video_paths), start |-> ev.text,
                       out |-> S3_preview, ok |-> tr = "ok"]>>
        IN  IF video_paths = <<>>
            THEN After(<<>>, <<"no_videos_skip_music">>, combine_changes(ud1, tf, mf, nf))
            ELSE IF tr = "ok"
            THEN Ret("CONFIRM_MUSIC", ud1, call, <<"trimming_preview", "audio_preview", "is_this_correct">>,
                     {"Yes, Confirm", "No, Retry", CancelText})
            ELSE IF tr = "ValueError"
            THEN Ret("RECEIVE_MUSIC_START_TIME", ud1, call, <<"trimming_preview", "invalid_start_time">>, {})
            ELSE After(call, <<"trimming_preview", "unexpected_audio_error">>, cancel(ud1))

handle_music_confirmation(ud, ev, tf, mf, nf) ==
    IF Contains(ev.text, "No")
    THEN Ret("ASK_ADD_MUSIC", ud, <<[op |-> "remove", out |-> "S3_preview.mp3"]>>,
             <<"ask_add_music">>, {"Yes", "No", CancelText})
    ELSE After(<<>>, <<"music_confirmed">>,
               combine_changes(Put(ud, "music_confirmed", TRUE), tf, mf, nf))

-----------------------------------------------------------------------------
(* Image watermark *)

ask_text_watermark(ud) ==
    Ret("ASK_TEXT_WATERMARK", ud, <<>>, <<"ask_text_watermark">>, {"Yes", "No", CancelText})

ask_image_watermark(ud, ev) ==
    IF ev.text = "Yes"
    THEN Ret("RECEIVE_IMAGE_WATERMARK", ud, <<>>, <<"send_watermark_image">>, {})
    ELSE ask_text_watermark(ud)

\* dl: whether downloading and opening the image succeeds ("ok") or raises;
\* the handler catches nothing.
receive_image_watermark(ud, ev, dl) ==
    IF ev.kind # "photo"
    THEN Ret("RECEIVE_IMAGE_WATERMARK", ud, <<>>, <<"not_an_image">>, {})
    ELSE IF dl # "ok"
    THEN Raised("RECEIVE_IMAGE_WATERMARK", ud, <<[op |-> "download", out |-> "watermark_img.png"]>>)
    ELSE IF ~ev.file.wm
    THEN Ret("RECEIVE_IMAGE_WATERMARK", ud, <<[op |-> "download", out |-> "watermark_img.png"]>>,
             <<"watermark_size_invalid">>, {})
    ELSE Ret("CHOOSE_IMG_WATERMARK_POSITION", Put(ud, "image_watermark_path", "watermark_img.png"),
             <<[op |-> "download", out |-> "watermark_img.png"]>>,
             <<"choose_position">>, ImgPositions \cup {CancelText})

handle_img_position(ud, ev) ==
    Ret("CHOOSE_IMG_WATERMARK_SCALE", Put(ud, "img_watermark_position", ev.text), <<>>,
        <<"choose_scale">>, Percents \cup {CancelText})

handle_img_scale(ud, ev) ==
    Ret("CHOOSE_IMG_WATERMARK_OPACITY", Put(ud, "img_watermark_scale", IntOf(ev.text)), <<>>,
        <<"choose_opacity">>, Percents \cup {CancelText})

\* The arguments create_image_watermark_layer gets from user_data.
ImageLayerCall(ud, n) ==
    [op |-> "create_image_watermark_layer", n |-> n,
     watermark_path |-> ud["image_watermark_path"], position |-> ud["img_watermark_position"],
     scale_percent |-> ud["img_watermark_scale"], opacity_percent |-> ud["img_watermark_opacity"]]

\* pv: "ok", or "fail" when the dimensions of the first file cannot be read
\* or the layer generation raises.
generate_and_preview_image_watermark(ud, ev, pv) ==
    LET ud1 == Put(ud, "img_watermark_opacity", IntOf(ev.text))
        first == ud1["processed"][1]
    IN  IF pv = "ok"
        THEN Ret("CONFIRM_IMG_WATERMARK", ud1, <<ImageLayerCall(ud1, 0)>>,
                 <<"generating_preview", "watermark_preview", "confirm_watermark">>,
                 ConfirmRetry \cup {CancelText})
        ELSE After(<<>>, <<"generating_preview", "preview_error">>, cancel(ud1))

\* The layers a confirmation loop collects: one per file whose generation
\* did not fail, in the order of the files, each named after its file
\* (S1_{i+1}.png).  fails: the files whose layer cannot be generated.
RECURSIVE LayersFrom(_, _, _)
LayersFrom(i, n, fails) ==
    IF i > n THEN <<>>
    ELSE (IF i \in fails THEN <<>> ELSE <<i>>) \o LayersFrom(i + 1, n, fails)

handle_img_watermark_confirmation(ud, ev, fails) ==
    IF Contains(ev.text, "No")
    THEN Ret("ASK_IMAGE_WATERMARK", ud, <<>>, <<"ask_image_watermark">>, {"Yes", "No", CancelText})
    ELSE
        LET n == Len(ud["processed"])
            s1_layers == LayersFrom(1, n, fails)
            calls == [i \in 1..n |-> ImageLayerCall(ud, i)]
        IN  After(calls, <<"applying_image_watermark", "image_layers_created">>,
                  ask_text_watermark(Put(ud, "S1_layers", s1_layers)))

-----------------------------------------------------------------------------
(* Text watermark *)

handle_ask_text_watermark(ud, ev, tf, mf, nf) ==
    IF Contains(ev.text, "Yes")
    THEN Ret("RECEIVE_TEXT", ud, <<>>, <<"enter_text">>, {})
    ELSE _check_and_ask_music(ud, tf, mf, nf)

\* The base names of bot_data['font_files'].
FontNames(bd) == {bd.font_files[i] : i \in 1..Len(bd.font_files)}

receive_text(ud, ev, bd, tf, mf, nf) ==
    IF ev.text = CancelText THEN cancel(ud)
    ELSE
        LET ud1 == Put(ud, "text_watermark_text", ev.text)
        IN  IF FontNames(bd) = {}
            THEN After(<<>>, <<"font_warning">>, _check_and_ask_music(ud1, tf, mf, nf))
            ELSE Ret("CHOOSE_FONT", ud1, <<>>, <<"choose_font">>, FontNames(bd) \cup {CancelText})

\* handle_font without its check for the cancel button.
handle_font_without_cancel(ud, ev) ==
    Ret("CHOOSE_FONT_SIZE", Put(ud, "text_watermark_font", ev.text), <<>>,
        <<"choose_font_size">>, FontSizes \cup {CancelText})

handle_font(ud, ev) ==
    IF ev.text = CancelText THEN cancel(ud)
    ELSE Ret("CHOOSE_FONT_SIZE", Put(ud, "text_watermark_font", ev.text), <<>>,
             <<"choose_font_size">>, FontSizes \cup {CancelText})

handle_font_size(ud, ev) ==
    Ret("CHOOSE_COLOR", Put(ud, "text_watermark_size", IntOf(ev.text)), <<>>,
        <<"choose_color">>, Colors \cup {CancelText})

handle_color(ud, ev) ==
    Ret("CHOOSE_TEXT_POSITION", Put(ud, "text_watermark_color", ev.text), <<>>,
        <<"choose_text_position">>, TextPositions \cup {CancelText})

\* The arguments create_text_watermark_layer gets from user_data.
TextLayerCall(ud, n) ==
    [op |-> "create_text_watermark_layer", n |-> n,
     text |-> ud["text_watermark_text"], font |-> ud["text_watermark_font"],
     font_size |-> ud["text_watermark_size"], color |-> ud["text_watermark_color"],
     position |-> ud["text_watermark_position"]]

generate_and_preview_text_watermark(ud, ev, bd, pv, tf, mf, nf) ==
    LET ud1 == Put(ud, "text_watermark_position", ev.text)
        first == ud1["processed"][1]
        font_name == ud1["text_watermark_font"]
    IN  IF font_name \notin FontNames(bd)
        THEN After(<<>>, <<"generating_preview", "font_not_found">>,
                   _check_and_ask_music(ud1, tf, mf, nf))
        ELSE IF pv = "ok"
        THEN Ret("CONFIRM_TEXT_WATERMARK", ud1, <<TextLayerCall(ud1, 0)>>,
                 <<"generating_preview", "watermark_preview", "confirm_text_watermark">>,
                 ConfirmRetry \cup {CancelText})
        ELSE After(<<>>, <<"generating_preview", "preview_error">>, cancel(ud1))

handle_text_watermark_confirmation(ud, ev, fails, tf, mf, nf) ==
    IF Contains(ev.text, "No")
    THEN Ret("ASK_TEXT_WATERMARK", ud, <<>>, <<"ask_text_watermark">>, {"Yes", "No", CancelText})
    ELSE
        LET n == Len(ud["processed"])
            s2_layers == LayersFrom(1, n, fails)
            calls == [i \in 1..n |-> TextLayerCall(ud, i)]
        IN  After(calls, <<"applying_text_watermark", "text_layers_created">>,
                  _check_and_ask_music(Put(ud, "S2_layers", s2_layers), tf, mf, nf))

-----------------------------------------------------------------------------
(* Video effects *)

\* The keys of EffectsEngine.effects_map (src/add_video_effects.py).
effects_map ==
    { "Black & White", "Fade In/Out", "Pixelated Effect", "Glitch", "Neon Glow",
      "VHS Look", "Color Saturation", "Contrast / Brightness", "Chromatic Aberration",
      "Invert Colors", "Speed Control", "Rotate", "Film Grain", "Rolling Shutter",
      "Cartoon / Painterly", "Vignette" }

\* The effects ask_video_effects offers.
effects_list == effects_map

\* ask_video_effects returning the stage that asks for the effects.
ask_video_effects_asking(ud) ==
    Ret("ASK_VIDEO_EFFECTS", Put(ud, "selected_effects", <<>>), <<>>, <<"select_effects">>,
        effects_list \cup {"Done Selecting", CancelText})

ask_video_effects(ud) ==
    Ret("CHOOSE_EFFECTS", Put(ud, "selected_effects", <<>>), <<>>, <<"select_effects">>,
        effects_list \cup {"Done Selecting", CancelText})

\* The effects of the list the engine knows, in order.
RECURSIVE KnownEffects(_)
KnownEffects(effects) ==
    IF effects = <<>> THEN <<>>
    ELSE (IF Head(effects) \in effects_map THEN <<Head(effects)>> ELSE <<>>)
         \o KnownEffects(Tail(effects))

\* The engine applying the effects of the list last to first.
apply_effects_in_reverse(f, effects) ==
    LET known == KnownEffects(effects)
    IN  [f EXCEPT !.fx = @ \o [i \in 1..Len(known) |-> known[Len(known) + 1 - i]]]

\* EffectsEngine.apply_effects_in_sequence: the video with the known effects
\* of the list applied to it in the order of the list.
apply_effects_in_sequence(f, effects) == [f EXCEPT !.fx = @ \o KnownEffects(effects)]

\* process_and_confirm_effects starting from the result of the round before.
process_and_confirm_effects_compounding(ud, xf) ==
    LET src == Get(ud, "final_files_with_effects", ud["final_files"])
        n == Len(src)
        effects == ud["selected_effects"]
        effects_applied_files ==
            [i \in 1..n |->
                IF is_video_file(src[i]) /\ i \notin xf
                THEN apply_effects_in_sequence(src[i], effects) ELSE src[i]]
        videos == {i \in 1..n : is_video_file(src[i])}
        callsOf(i) ==
            IF i \in videos
            THEN <<[op |-> "apply_effects_in_sequence", n |-> i, effects |-> effects, ok |-> i \notin xf]>>
            ELSE <<>>
        Calls[i \in 0..n] == IF i = 0 THEN <<>> ELSE Calls[i - 1] \o callsOf(i)
    IN  Ret("CONFIRM_EFFECTS", Put(ud, "final_files_with_effects", effects_applied_files), Calls[n],
            (IF videos \cap xf # {} THEN <<"effects_error">> ELSE <<>>)
                \o <<"effects_preview", "confirm_effects">>,
            {"Yes, upload", "No, restart effects", CancelText})

\* xf: the files on which applying the effects raises.
process_and_confirm_effects(ud, xf) ==
    LET src == ud["final_files"]
        n == Len(src)
        effects == ud["selected_effects"]
        effects_applied_files ==
            [i \in 1..n |->
                IF is_video_file(src[i]) /\ i \notin xf
                THEN apply_effects_in_sequence(src[i], effects) ELSE src[i]]
        videos == {i \in 1..n : is_video_file(src[i])}
        callsOf(i) ==
            IF i \in videos
            THEN <<[op |-> "apply_effects_in_sequence", n |-> i, effects |-> effects, ok |-> i \notin xf]>>
            ELSE <<>>
        Calls[i \in 0..n] == IF i = 0 THEN <<>> ELSE Calls[i - 1] \o callsOf(i)
    IN  Ret("CONFIRM_EFFECTS", Put(ud, "final_files_with_effects", effects_applied_files), Calls[n],
            (IF videos \cap xf # {} THEN <<"effects_error">> ELSE <<>>)
                \o <<"effects_preview", "confirm_effects">>,
            {"Yes, upload", "No, restart effects", CancelText})

\* list.remove(x)
RECURSIVE Remove(_, _)
Remove(xs, x) ==
    IF xs = <<>> THEN <<>>
    ELSE IF Head(xs) = x THEN Tail(xs) ELSE <<Head(xs)>> \o Remove(Tail(xs), x)

InSeq(xs, x) == \E i \in 1..Len(xs) : xs[i] = x

\* Room for one more effect when the selection is already at the cap.
RoomForEffect_AtCap(selected) == Len(selected) <= MaxEffects

\* One more effect may be added to the selection.
RoomForEffect(selected) == Len(selected) < MaxEffects

\* choose_effects storing only the names the engine knows.
choose_effects_checked(ud, ev, xf) ==
    LET choice == ev.text
        selected == Get(ud, "selected_effects", <<>>)
    IN  IF choice = CancelText THEN cancel(ud)
        ELSE IF Contains(choice, "Done")
        THEN IF selected = <<>>
             THEN Ret("CAPTION", ud, <<>>, <<"no_effects_enter_caption">>, {})
             ELSE After(<<>>, <<"applying_effects">>, process_and_confirm_effects(ud, xf))
        ELSE IF choice \notin effects_map
        THEN Ret("CHOOSE_EFFECTS", ud, <<>>, <<"unknown_effect">>, {})
        ELSE IF ~InSeq(selected, choice) /\ RoomForEffect(selected)
        THEN Ret("CHOOSE_EFFECTS", Put(ud, "selected_effects", Append(selected, choice)),
                 <<>>, <<"effect_added">>, {})
        ELSE IF InSeq(selected, choice)
        THEN Ret("CHOOSE_EFFECTS", Put(ud, "selected_effects", Remove(selected, choice)),
                 <<>>, <<"effect_removed">>, {})
        ELSE Ret("CHOOSE_EFFECTS", ud, <<>>, <<"only_3_effects">>, {})

choose_effects(ud, ev, xf) ==
    LET choice == ev.text
        selected == Get(ud, "selected_effects", <<>>)
    IN  IF choice = CancelText THEN cancel(ud)
        ELSE IF Contains(choice, "Done")
        THEN IF selected = <<>>
             THEN Ret("CAPTION", ud, <<>>, <<"no_effects_enter_caption">>, {})
             ELSE After(<<>>, <<"applying_effects">>, process_and_confirm_effects(ud, xf))
        ELSE IF ~InSeq(selected, choice) /\ RoomForEffect(selected)
        THEN Ret("CHOOSE_EFFECTS",
                 IF Has(ud, "selected_effects")
                 THEN Put(ud, "selected_effects", Append(selected, choice)) ELSE ud,
                 <<>>, <<"effect_added">>, {})
        ELSE IF InSeq(selected, choice)
        THEN Ret("CHOOSE_EFFECTS", Put(ud, "selected_effects", Remove(selected, choice)),
                 <<>>, <<"effect_removed">>, {})
        ELSE Ret("CHOOSE_EFFECTS", ud, <<>>, <<"only_3_effects">>, {})

\* handle_effects_confirmation keeping the effected files on a restart too.
handle_effects_confirmation_keeping(ud, ev) ==
    IF Contains(ev.text, "Yes")
    THEN Ret("CAPTION", Put(ud, "final_files", ud["final_files_with_effects"]), <<>>,
             <<"effects_confirmed_enter_caption">>, {})
    ELSE After(<<>>, <<"restarting_effects">>,
               ask_video_effects(Put(ud, "final_files", ud["final_files_with_effects"])))

\* handle_effects_confirmation keeping the videos alone as final files.
handle_effects_confirmation_videos_only(ud, ev) ==
    IF Contains(ev.text, "Yes")
    THEN Ret("CAPTION", Put(ud, "final_files", VideosOf(ud["final_files_with_effects"])), <<>>,
             <<"effects_confirmed_enter_caption">>, {})
    ELSE After(<<>>, <<"restarting_effects">>, ask_video_effects(ud))

handle_effects_confirmation(ud, ev) ==
    IF Contains(ev.text, "Yes")
    THEN Ret("CAPTION", Put(ud, "final_files", ud["final_files_with_effects"]), <<>>,
             <<"effects_confirmed_enter_caption">>, {})
    ELSE After(<<>>, <<"restarting_effects">>, ask_video_effects(ud))

\* handle_final_confirmation sending the user back to the edits for every
\* answer but 'Add Video Effects'.
handle_final_confirmation_restarting(ud, ev) ==
    IF Contains(ev.text, "Effects") THEN ask_video_effects(ud)
    ELSE Ret("ASK_IMAGE_WATERMARK", ud, <<>>, <<"restarting", "ask_image_watermark">>, {"Yes", "No"})

handle_final_confirmation(ud, ev) ==
    IF Contains(ev.text, "restart")
    THEN Ret("ASK_IMAGE_WATERMARK", ud, <<>>, <<"restarting", "ask_image_watermark">>, {"Yes", "No"})
    ELSE IF Contains(ev.text, "Effects") THEN ask_video_effects(ud)
    ELSE Ret("CAPTION", ud, <<>>, <<"enter_caption">>, {})

-----------------------------------------------------------------------------
(* Caption and upload *)

\* handle_caption_and_upload asking for the caption again when the upload fails.
handle_caption_and_upload_retrying(ud, ev, up) ==
    IF up = "ok"
    THEN After(<<[op |-> "upload_album", paths |-> Get(ud, "final_files", <<>>), caption |-> ev.text]>>,
               <<"uploading", "upload_successful", "new_project">>, send_welcome_message(ud))
    ELSE Ret("CAPTION", ud,
             <<[op |-> "upload_album", paths |-> Get(ud, "final_files", <<>>), caption |-> ev.text]>>,
             <<"uploading", "upload_error">>, {})

\* handle_caption_and_upload publishing the first file alone in every mode.
handle_caption_and_upload_first_only(ud, ev, up) ==
    IF ev.text = CancelText THEN cancel(ud)
    ELSE
        LET files_to_upload == Get(ud, "final_files", <<>>)
            call ==
                IF is_video_file(files_to_upload[1])
                THEN [op |-> "upload_video", paths |-> <<files_to_upload[1]>>, caption |-> ev.text]
                ELSE [op |-> "upload_photo", paths |-> <<files_to_upload[1]>>, caption |-> ev.text]
        IN  IF files_to_upload = <<>>
            THEN After(<<>>, <<"uploading", "no_final_files">>, cancel(ud))
            ELSE After(<<call>>,
                       <<"uploading", IF up = "ok" THEN "upload_successful" ELSE "upload_error",
                         "new_project">>,
                       send_welcome_message(ud))

\* up: whether the upload to the platform succeeds ("ok") or raises.
handle_caption_and_upload(ud, ev, up) ==
    IF ev.text = CancelText THEN cancel(ud)
    ELSE
        LET files_to_upload == Get(ud, "final_files", <<>>)
            mode == Get(ud, "mode", "none")
            call ==
                IF mode = "album"
                THEN [op |-> "upload_album", paths |-> files_to_upload, caption |-> ev.text]
                ELSE IF is_video_file(files_to_upload[1])
                THEN [op |-> "upload_video", paths |-> <<files_to_upload[1]>>, caption |-> ev.text]
                ELSE [op |-> "upload_photo", paths |-> <<files_to_upload[1]>>, caption |-> ev.text]
        IN  IF files_to_upload = <<>>
            THEN After(<<>>, <<"uploading", "no_final_files">>, cancel(ud))
            ELSE After(<<call>>,
                       <<"uploading", IF up = "ok" THEN "upload_successful" ELSE "upload_error",
                         "new_project">>,
                       send_welcome_message(ud))

-----------------------------------------------------------------------------
(* The updates the user sends *)

Junk == "junk"

\* Sent in any state: the cancel button and the two commands.
Common == {Text(CancelText), Command("/cancel"), Command("/start")}

\* The media a user sends during intake: a photo, videos of 60 and 61
\* seconds, a video whose duration cannot be read, a file of an unsupported
\* type, animations that convert to videos of 30 and 61 seconds.
MediaEvents ==
    { Photo(TRUE), Video("video", 60), Video("video", 61), Video("video", None),
      Video("unsupported", 0), Animation(30), Animation(61) }

Texts(S) == {Text(t) : t \in S}

\* Inputs outside what the state asks for: a text that names no font, a
\* start time that is no MM:SS, a watermark image of the wrong size.
Strays(st) ==
    CASE st = "CHOOSE_FONT" -> Texts({Junk})
      [] st = "RECEIVE_MUSIC_START_TIME" -> Texts({Junk})
      [] st = "RECEIVE_IMAGE_WATERMARK" -> {Photo(FALSE)}
      [] OTHER -> {}

\* An environment: the media the user sends (`media` while fewer than
\* `varied` files are stored, then `more`, up to `sent` files), the effects
\* the user picks, the stages in which the user restarts with /start or
\* lets the conversation time out, the deviations of one session, and the
\* updates the user never sends in a stage (`avoid`).
\* In the whole workflow the user sends no animation that passes validation:
\* once converted it is a video like the others.
MainEnv ==
    [media |-> MediaEvents \ {Animation(30)}, varied |-> MaxSent, more |-> {}, sent |-> MaxSent,
     effects |-> {"Glitch"},
     interruptible |-> {END, "AUTH_2FA", "AUTH_SMS", "MEDIA_TYPE", "RECEIVE_MEDIA", "CONFIRM"},
     deviations |-> MaxDeviations, avoid |-> {}]

IntakeEnv ==
    [media |-> MediaEvents, varied |-> MaxSent, more |-> {Photo(TRUE)}, sent |-> MaxIntake,
     effects |-> {},
     interruptible |-> {END, "AUTH_2FA", "AUTH_SMS", "MEDIA_TYPE", "RECEIVE_MEDIA", "CONFIRM"},
     deviations |-> 0, avoid |-> {}]

\* The effects the user picks in the effects sub-flow: one more than the cap.
EffectChoices == {"Glitch", "Vignette", "Rotate", "Invert Colors"}

\* The effects sub-flow: photos and valid videos uploaded as they are, then
\* effects chosen among EffectChoices; the user starts one conversation and
\* does not cancel while asked for a login code.
EffectsEnv ==
    [media |-> {Photo(TRUE), Video("video", 60)}, varied |-> MaxSent, more |-> {}, sent |-> MaxSent,
     effects |-> EffectChoices,
     interruptible |-> {END},
     deviations |-> MaxDeviations,
     avoid |-> {<<"CONFIRM", Text("Yes, continue")>>,
                <<"CONFIRM_FINAL_MEDIA", Text("No, restart edits")>>}
               \cup ({"AUTH_2FA", "AUTH_SMS"} \X CancelEvents)]

\* The end-to-end scenarios: albums and single files of videos of 60 and of
\* 30 seconds, with or without image watermark and music, never a text
\* watermark, effects among Glitch and Vignette; nothing fails and the user
\* never retries.
ScenarioEnv ==
    [media |-> {Video("video", 60), Animation(30)}, varied |-> MaxScenario, more |-> {},
     sent |-> MaxScenario,
     effects |-> {"Glitch", "Vignette"},
     interruptible |-> {END},
     deviations |-> 0,
     avoid |-> {<<"ASK_TEXT_WATERMARK", Text("Yes")>>}]

\* The media the user may send next.
MediaNow(e) ==
    LET n == Len(Get(user_data, "files", <<>>))
    IN  IF n >= e.sent THEN {} ELSE IF n < e.varied THEN e.media ELSE e.more

\* What the keyboard or the prompt of each state asks for (one value of each
\* kind of option).
Options(e, st) ==
    CASE st \in {"AUTH_2FA", "AUTH_SMS"} -> Texts({"123456"})
      [] st = "MEDIA_TYPE" -> Texts({"Album", "Single"})
      [] st = "RECEIVE_MEDIA" -> MediaNow(e) \cup Texts({"Done"})
      [] st = "CONFIRM" -> Texts({"Yes, continue", "No, Upload As Is"})
      [] st \in {"ASK_IMAGE_WATERMARK", "ASK_TEXT_WATERMARK", "ASK_ADD_MUSIC"} -> Texts({"Yes", "No"})
      [] st = "RECEIVE_IMAGE_WATERMARK" -> {Photo(TRUE)}
      [] st = "CHOOSE_IMG_WATERMARK_POSITION" -> Texts({"top-left"})
      [] st = "CHOOSE_IMG_WATERMARK_SCALE" -> Texts({"50"})
      [] st = "CHOOSE_IMG_WATERMARK_OPACITY" -> Texts({"100"})
      [] st \in {"CONFIRM_IMG_WATERMARK", "CONFIRM_TEXT_WATERMARK", "CONFIRM_MUSIC"} -> Texts(ConfirmRetry)
      [] st = "RECEIVE_TEXT" -> Texts({"hello"})
      [] st = "CHOOSE_FONT" -> Texts({"Arial.ttf"})
      [] st = "CHOOSE_FONT_SIZE" -> Texts({"20"})
      [] st = "CHOOSE_COLOR" -> Texts({"White"})
      [] st = "CHOOSE_TEXT_POSITION" -> Texts({"top_center"})
      [] st = "RECEIVE_MUSIC" -> {Audio}
      [] st = "RECEIVE_MUSIC_START_TIME" -> Texts({"00:05"})
      [] st = "CONFIRM_COMBINED_MEDIA" -> Texts({"Yes, continue", "No, restart edits"})
      [] st = "CONFIRM_FINAL_MEDIA" ->
            Texts({"Yes, looks good", "No, restart edits", "Add Video Effects"})
      [] st = "CHOOSE_EFFECTS" -> Texts(e.effects \cup {"Done Selecting"})
      [] st = "CONFIRM_EFFECTS" -> Texts({"Yes, upload", "No, restart effects"})
      [] st = "CAPTION" -> Texts({"hello"})
      [] OTHER -> {}

\* What the user sends in each state: what it asks for, the strays and the
\* common updates.
Inputs(e, st) ==
    {ev \in Common \cup Strays(st) \cup Options(e, st) : <<st, ev>> \notin e.avoid}

\* The idle timeout is no update; this stands for it in `last`.
TimeoutEvent == [kind |-> "timeout", text |-> "", file |-> NoFile]
NoEvent == [kind |-> "none", text |-> "", file |-> NoFile]

\* Whether the update is a deviation in this stage.
Deviates(st, ev) ==
    \/ ev \in Strays(st)
    \/ ev.kind = "text" /\ ev.text \in {"No, Retry", "No, restart edits", "No, restart effects"}

-----------------------------------------------------------------------------
(* The collaborators' failures *)

\* One collaborator call that fails during a handler: the kind of the call
\* and the file it is made for.  NoFault: every call succeeds.
NoFault == [k |-> "none", i |-> 0]

N == Len(Get(user_data, "processed", <<>>))

FaultsOf(kinds) ==
    {NoFault} \cup (IF budget > 0 THEN {[k |-> k, i |-> i] : k \in kinds, i \in 1..N} ELSE {})

\* The oracles of the handlers, from the fault chosen.
Fails(f, k) == IF f.k = k THEN {f.i} ELSE {}
FirstFail(f, k) == IF f.k = k THEN f.i ELSE 0
Outcome(f, k) == IF f.k = k THEN "fail" ELSE "ok"

Combining == {"trim", "merge", "norm"}

-----------------------------------------------------------------------------
(* The state machine *)

FontConfigs == {<<>>, <<"Arial.ttf">>}

\* The users whose conversations run in parallel, and a conversation not yet
\* begun; lost: the files its last handler read and did not find as this
\* session had written them.
Users == {1, 2}
NoSession == [stage |-> END, ud |-> EmptyDict, lost |-> {}]

\* The stages that ask whether to add a feature, and no answer to any yet.
AskStages == {"ASK_IMAGE_WATERMARK", "ASK_TEXT_WATERMARK", "ASK_ADD_MUSIC"}
NoAnswers == [st \in AskStages |-> "none"]

InitOf(e) ==
    /\ stage = END
    /\ user_data = EmptyDict
    /\ bot_data \in {[font_files |-> fs] : fs \in FontConfigs}
    /\ last = [ev |-> NoEvent, fn |-> "none", from |-> END, calls |-> <<>>, msgs |-> <<>>, kb |-> {}]
    /\ answered = NoAnswers
    /\ budget = e.deviations
    /\ sessions = [u \in Users |-> NoSession]
    /\ downloads = {}
    /\ media_counter = 1
    /\ authenticated = FALSE

\* The handler fn, chosen for the update ev, ran and returned r; fc: the
\* collaborator failures in this step.
Apply(e, ev, fn, r, fc) ==
    /\ fc + (IF Deviates(stage, ev) THEN 1 ELSE 0) <= budget
    /\ stage' = r.next
    /\ user_data' = r.ud
    /\ last' = [ev |-> ev, fn |-> fn, from |-> stage, calls |-> r.calls, msgs |-> r.msgs, kb |-> r.kb]
    /\ answered' = IF r.ud = EmptyDict THEN NoAnswers
                    ELSE IF stage \in AskStages /\ ev.kind = "text" /\ ev.text \in {"Yes", "No"}
                    THEN [answered EXCEPT ![stage] = ev.text]
                    ELSE answered
    /\ budget' = IF r.ud = EmptyDict THEN e.deviations
                  ELSE budget - fc - (IF Deviates(stage, ev) THEN 1 ELSE 0)
    /\ authenticated' = IF \E i \in 1..Len(r.msgs) : r.msgs[i] = "connected" THEN TRUE
                         ELSE IF \E i \in 1..Len(r.calls) :
                                      r.calls[i].op = "login" /\ ~r.calls[i].code THEN FALSE
                         ELSE authenticated
    /\ UNCHANGED <<bot_data, sessions, downloads, media_counter>>

\* The handler returned r under the fault f and would have returned r0
\* without it: the fault counts when it made a difference, and a fault that
\* makes none is not chosen.
ApplyFault(e, ev, fn, r, r0, f) ==
    /\ f # NoFault => r # r0
    /\ Apply(e, ev, fn, r, IF f = NoFault THEN 0 ELSE 1)

\* What the preview trim of receive_music_start_time does: it rejects a
\* malformed start time (the user's error); on a well-formed one it fails
\* only by a fault.
PreviewTrim(t, f) ==
    IF "ok" \notin TrimOutcomes(t) THEN "ValueError"
    ELSE IF f.k = "preview" THEN "error" ELSE "ok"

Do_start(e) ==
    \E ev \in Inputs(e, stage), lg \in LoginOutcomes :
        /\ Handler(stage, ev) = "start"
        /\ stage \in e.interruptible
        /\ Apply(e, ev, "start", start(user_data, lg), 0)

Do_cancel(e) ==
    \E ev \in Inputs(e, stage) :
        /\ Handler(stage, ev) = "cancel"
        /\ Apply(e, ev, "cancel", cancel(user_data), 0)

Do_handle_2fa(e) ==
    \E ev \in Inputs(e, stage), lg \in LoginOutcomes \ {"SMS_REQUIRED"} :
        /\ Handler(stage, ev) = "handle_2fa"
        /\ Apply(e, ev, "handle_2fa", handle_2fa(user_data, ev, lg), 0)

Do_handle_sms(e) ==
    \E ev \in Inputs(e, stage), lg \in LoginOutcomes \ {"2FA_REQUIRED"} :
        /\ Handler(stage, ev) = "handle_sms"
        /\ Apply(e, ev, "handle_sms", handle_sms(user_data, ev, lg), 0)

Do_handle_media_type(e) ==
    \E ev \in Inputs(e, stage) :
        /\ Handler(stage, ev) = "handle_media_type"
        /\ Apply(e, ev, "handle_media_type", handle_media_type(user_data, ev), 0)

Do_handle_media(e) ==
    \E ev \in Inputs(e, stage), lg \in LoginOutcomes :
        /\ Handler(stage, ev) = "handle_media"
        /\ Apply(e, ev, "handle_media", handle_media(user_data, ev, lg), 0)

Do_process_media(e) ==
    \E ev \in Inputs(e, stage), lg \in LoginOutcomes :
        /\ Handler(stage, ev) = "process_media"
        /\ Apply(e, ev, "process_media", process_media(user_data, lg), 0)

Do_handle_confirmation(e) ==
    \E ev \in Inputs(e, stage), f \in FaultsOf({"norm"}) :
        /\ Handler(stage, ev) = "handle_confirmation"
        /\ ApplyFault(e, ev, "handle_confirmation",
                      handle_confirmation(user_data, ev, FirstFail(f, "norm")),
                      handle_confirmation(user_data, ev, 0), f)

Do_ask_image_watermark(e) ==
    \E ev \in Inputs(e, stage) :
        /\ Handler(stage, ev) = "ask_image_watermark"
        /\ Apply(e, ev, "ask_image_watermark", ask_image_watermark(user_data, ev), 0)

Do_receive_image_watermark(e) ==
    \E ev \in Inputs(e, stage), f \in FaultsOf({"download"}) :
        /\ Handler(stage, ev) = "receive_image_watermark"
        /\ f.i <= 1
        /\ ApplyFault(e, ev, "receive_image_watermark",
                      receive_image_watermark(user_data, ev, Outcome(f, "download")),
                      receive_image_watermark(user_data, ev, "ok"), f)

Do_handle_img_position(e) ==
    \E ev \in Inputs(e, stage) :
        /\ Handler(stage, ev) = "handle_img_position"
        /\ Apply(e, ev, "handle_img_position", handle_img_position(user_data, ev), 0)

Do_handle_img_scale(e) ==
    \E ev \in Inputs(e, stage) :
        /\ Handler(stage, ev) = "handle_img_scale"
        /\ Apply(e, ev, "handle_img_scale", handle_img_scale(user_data, ev), 0)

Do_generate_and_preview_image_watermark(e) ==
    \E ev \in Inputs(e, stage), f \in FaultsOf({"preview"}) :
        /\ Handler(stage, ev) = "generate_and_preview_image_watermark"
        /\ f.i <= 1
        /\ ApplyFault(e, ev, "generate_and_preview_image_watermark",
                      generate_and_preview_image_watermark(user_data, ev, Outcome(f, "preview")),
                      generate_and_preview_image_watermark(user_data, ev, "ok"), f)

Do_handle_img_watermark_confirmation(e) ==
    \E ev \in Inputs(e, stage), f \in FaultsOf({"layer"}) :
        /\ Handler(stage, ev) = "handle_img_watermark_confirmation"
        /\ ApplyFault(e, ev, "handle_img_watermark_confirmation",
                      handle_img_watermark_confirmation(user_data, ev, Fails(f, "layer")),
                      handle_img_watermark_confirmation(user_data, ev, {}), f)

Do_handle_ask_text_watermark(e) ==
    \E ev \in Inputs(e, stage), f \in FaultsOf(Combining) :
        /\ Handler(stage, ev) = "handle_ask_text_watermark"
        /\ ApplyFault(e, ev, "handle_ask_text_watermark",
                      handle_ask_text_watermark(user_data, ev, Fails(f, "trim"), FirstFail(f, "merge"), FirstFail(f, "norm")),
                      handle_ask_text_watermark(user_data, ev, {}, 0, 0), f)

Do_receive_text(e) ==
    \E ev \in Inputs(e, stage), f \in FaultsOf(Combining) :
        /\ Handler(stage, ev) = "receive_text"
        /\ ApplyFault(e, ev, "receive_text",
                      receive_text(user_data, ev, bot_data, Fails(f, "trim"), FirstFail(f, "merge"), FirstFail(f, "norm")),
                      receive_text(user_data, ev, bot_data, {}, 0, 0), f)

Do_handle_font(e) ==
    \E ev \in Inputs(e, stage) :
        /\ Handler(stage, ev) = "handle_font"
        /\ Apply(e, ev, "handle_font", handle_font(user_data, ev), 0)

Do_handle_font_size(e) ==
    \E ev \in Inputs(e, stage) :
        /\ Handler(stage, ev) = "handle_font_size"
        /\ Apply(e, ev, "handle_font_size", handle_font_size(user_data, ev), 0)

Do_handle_color(e) ==
    \E ev \in Inputs(e, stage) :
        /\ Handler(stage, ev) = "handle_color"
        /\ Apply(e, ev, "handle_color", handle_color(user_data, ev), 0)

Do_generate_and_preview_text_watermark(e) ==
    \E ev \in Inputs(e, stage), f \in FaultsOf({"preview"} \cup Combining) :
        /\ Handler(stage, ev) = "generate_and_preview_text_watermark"
        /\ f.k = "preview" => f.i = 1
        /\ ApplyFault(e, ev, "generate_and_preview_text_watermark",
                      generate_and_preview_text_watermark(user_data, ev, bot_data, Outcome(f, "preview"), Fails(f, "trim"), FirstFail(f, "merge"), FirstFail(f, "norm")),
                      generate_and_preview_text_watermark(user_data, ev, bot_data, "ok", {}, 0, 0), f)

Do_handle_text_watermark_confirmation(e) ==
    \E ev \in Inputs(e, stage), f \in FaultsOf({"layer"} \cup Combining) :
        /\ Handler(stage, ev) = "handle_text_watermark_confirmation"
        /\ ApplyFault(e, ev, "handle_text_watermark_confirmation",
                      handle_text_watermark_confirmation(user_data, ev, Fails(f, "layer"), Fails(f, "trim"), FirstFail(f, "merge"), FirstFail(f, "norm")),
                      handle_text_watermark_confirmation(user_data, ev, {}, {}, 0, 0), f)

Do_ask_add_music(e) ==
    \E ev \in Inputs(e, stage), f \in FaultsOf(Combining) :
        /\ Handler(stage, ev) = "ask_add_music"
        /\ ApplyFault(e, ev, "ask_add_music",
                      ask_add_music(user_data, ev, Fails(f, "trim"), FirstFail(f, "merge"), FirstFail(f, "norm")),
                      ask_add_music(user_data, ev, {}, 0, 0), f)

Do_receive_music(e) ==
    \E ev \in Inputs(e, stage) :
        /\ Handler(stage, ev) = "receive_music"
        /\ Apply(e, ev, "receive_music", receive_music(user_data, ev), 0)

Do_receive_music_start_time(e) ==
    \E ev \in Inputs(e, stage), f \in FaultsOf({"preview"}) :
        /\ Handler(stage, ev) = "receive_music_start_time"
        /\ f.i <= 1
        /\ ApplyFault(e, ev, "receive_music_start_time",
                      receive_music_start_time(user_data, ev, PreviewTrim(ev.text, f), {}, 0, 0),
                      receive_music_start_time(user_data, ev, PreviewTrim(ev.text, NoFault), {}, 0, 0), f)

Do_handle_music_confirmation(e) ==
    \E ev \in Inputs(e, stage), f \in FaultsOf(Combining) :
        /\ Handler(stage, ev) = "handle_music_confirmation"
        /\ ApplyFault(e, ev, "handle_music_confirmation",
                      handle_music_confirmation(user_data, ev, Fails(f, "trim"), FirstFail(f, "merge"), FirstFail(f, "norm")),
                      handle_music_confirmation(user_data, ev, {}, 0, 0), f)

Do_handle_combined_media_confirmation(e) ==
    \E ev \in Inputs(e, stage), f \in FaultsOf({"norm"}) :
        /\ Handler(stage, ev) = "handle_combined_media_confirmation"
        /\ ApplyFault(e, ev, "handle_combined_media_confirmation",
                      handle_combined_media_confirmation(user_data, ev, FirstFail(f, "norm")),
                      handle_combined_media_confirmation(user_data, ev, 0), f)

Do_handle_final_confirmation(e) ==
    \E ev \in Inputs(e, stage) :
        /\ Handler(stage, ev) = "handle_final_confirmation"
        /\ Apply(e, ev, "handle_final_confirmation", handle_final_confirmation(user_data, ev), 0)

Do_choose_effects(e) ==
    \E ev \in Inputs(e, stage), f \in FaultsOf({"effects"}) :
        /\ Handler(stage, ev) = "choose_effects"
        /\ ApplyFault(e, ev, "choose_effects",
                      choose_effects(user_data, ev, Fails(f, "effects")),
                      choose_effects(user_data, ev, {}), f)

Do_handle_effects_confirmation(e) ==
    \E ev \in Inputs(e, stage) :
        /\ Handler(stage, ev) = "handle_effects_confirmation"
        /\ Apply(e, ev, "handle_effects_confirmation", handle_effects_confirmation(user_data, ev), 0)

Do_handle_caption_and_upload(e) ==
    \E ev \in Inputs(e, stage), f \in FaultsOf({"upload"}) :
        /\ Handler(stage, ev) = "handle_caption_and_upload"
        /\ f.i <= 1
        /\ ApplyFault(e, ev, "handle_caption_and_upload",
                      handle_caption_and_upload(user_data, ev, Outcome(f, "upload")),
                      handle_caption_and_upload(user_data, ev, "ok"), f)

\* conversation_timeout=1440: an idle conversation is ended.  (An update no
\* handler matches is dropped: a stuttering step.)
conversation_timeout(e) ==
    /\ stage # END
    /\ stage \in e.interruptible
    /\ Apply(e, TimeoutEvent, "timeout", Ret(END, user_data, <<>>, <<>>, {}), 0)

Init == InitOf(MainEnv)

Next ==
    \/ Do_start(MainEnv)
    \/ Do_cancel(MainEnv)
    \/ Do_handle_2fa(MainEnv)
    \/ Do_handle_sms(MainEnv)
    \/ Do_handle_media_type(MainEnv)
    \/ Do_handle_media(MainEnv)
    \/ Do_process_media(MainEnv)
    \/ Do_handle_confirmation(MainEnv)
    \/ Do_ask_image_watermark(MainEnv)
    \/ Do_receive_image_watermark(MainEnv)
    \/ Do_handle_img_position(MainEnv)
    \/ Do_handle_img_scale(MainEnv)
    \/ Do_generate_and_preview_image_watermark(MainEnv)
    \/ Do_handle_img_watermark_confirmation(MainEnv)
    \/ Do_handle_ask_text_watermark(MainEnv)
    \/ Do_receive_text(MainEnv)
    \/ Do_handle_font(MainEnv)
    \/ Do_handle_font_size(MainEnv)
    \/ Do_handle_color(MainEnv)
    \/ Do_generate_and_preview_text_watermark(MainEnv)
    \/ Do_handle_text_watermark_confirmation(MainEnv)
    \/ Do_ask_add_music(MainEnv)
    \/ Do_receive_music(MainEnv)
    \/ Do_receive_music_start_time(MainEnv)
    \/ Do_handle_music_confirmation(MainEnv)
    \/ Do_handle_combined_media_confirmation(MainEnv)
    \/ Do_handle_final_confirmation(MainEnv)
    \/ Do_choose_effects(MainEnv)
    \/ Do_handle_effects_confirmation(MainEnv)
    \/ Do_handle_caption_and_upload(MainEnv)
    \/ conversation_timeout(MainEnv)

Spec == Init /\ [][Next]_vars

\* Intake alone, with albums up to the limit.
InitIntake == InitOf(IntakeEnv)

NextIntake ==
    \/ Do_start(IntakeEnv)
    \/ Do_cancel(IntakeEnv)
    \/ Do_handle_2fa(IntakeEnv)
    \/ Do_handle_sms(IntakeEnv)
    \/ Do_handle_media_type(IntakeEnv)
    \/ Do_handle_media(IntakeEnv)
    \/ Do_process_media(IntakeEnv)
    \/ conversation_timeout(IntakeEnv)

SpecIntake == InitIntake /\ [][NextIntake]_vars

\* The effects sub-flow, with more effects to choose from than the cap.
InitEffects == InitOf(EffectsEnv)

NextEffects ==
    \/ Do_start(EffectsEnv)
    \/ Do_cancel(EffectsEnv)
    \/ Do_handle_2fa(EffectsEnv)
    \/ Do_handle_sms(EffectsEnv)
    \/ Do_handle_media_type(EffectsEnv)
    \/ Do_handle_media(EffectsEnv)
    \/ Do_process_media(EffectsEnv)
    \/ Do_handle_confirmation(EffectsEnv)
    \/ Do_handle_final_confirmation(EffectsEnv)
    \/ Do_choose_effects(EffectsEnv)
    \/ Do_handle_effects_confirmation(EffectsEnv)
    \/ Do_handle_caption_and_upload(EffectsEnv)

SpecEffects == InitEffects /\ [][NextEffects]_vars

\* The end-to-end scenarios.
InitScenario == InitOf(ScenarioEnv)

NextScenario ==
    \/ Do_start(ScenarioEnv)
    \/ Do_cancel(ScenarioEnv)
    \/ Do_handle_2fa(ScenarioEnv)
    \/ Do_handle_sms(ScenarioEnv)
    \/ Do_handle_media_type(ScenarioEnv)
    \/ Do_handle_media(ScenarioEnv)
    \/ Do_process_media(ScenarioEnv)
    \/ Do_handle_confirmation(ScenarioEnv)
    \/ Do_ask_image_watermark(ScenarioEnv)
    \/ Do_receive_image_watermark(ScenarioEnv)
    \/ Do_handle_img_position(ScenarioEnv)
    \/ Do_handle_img_scale(ScenarioEnv)
    \/ Do_generate_and_preview_image_watermark(ScenarioEnv)
    \/ Do_handle_img_watermark_confirmation(ScenarioEnv)
    \/ Do_handle_ask_text_watermark(ScenarioEnv)
    \/ Do_ask_add_music(ScenarioEnv)
    \/ Do_receive_music(ScenarioEnv)
    \/ Do_receive_music_start_time(ScenarioEnv)
    \/ Do_handle_music_confirmation(ScenarioEnv)
    \/ Do_handle_combined_media_confirmation(ScenarioEnv)
    \/ Do_handle_final_confirmation(ScenarioEnv)
    \/ Do_choose_effects(ScenarioEnv)
    \/ Do_handle_effects_confirmation(ScenarioEnv)
    \/ Do_handle_caption_and_upload(ScenarioEnv)

SpecScenario == InitScenario /\ [][NextScenario]_vars

-----------------------------------------------------------------------------
(* Cancellation *)

\* C1: a cancel event (the cancel button's text or the /cancel command)
\* dispatched in any of the stages leaves the conversation at MEDIA_TYPE
\* with user_data empty, and what the dispatch did is what cancel does and
\* nothing else: it sent cancel's messages and cleared the downloads, so the
\* stage's own handler did not take the event for an ordinary input.
C1_CancelResets ==
    (last.ev \in CancelEvents /\ last.from \in States) =>
        /\ stage = "MEDIA_TYPE"
        /\ user_data = EmptyDict
        /\ last.msgs = <<"cancelled", "welcome", "choose_mode">>
        /\ last.calls = <<[op |-> "clear_downloads"]>>
        /\ last.kb = {"Album", "Single", CancelText}

\* The cancel button pressed in CHOOSE_FONT, whose own handler takes any text.
C1_Witness ==
    /\ last.ev = Text(CancelText)
    /\ last.from = "CHOOSE_FONT"
    /\ last.fn = "handle_font"
    /\ stage = "MEDIA_TYPE"

-----------------------------------------------------------------------------
(* Overlays *)

\* The merges of the last dispatch.
Merges == {i \in 1..Len(last.calls) : last.calls[i].op = "merge"}

\* The layer sequence is as long as processed and its i-th element is the
\* layer generated for file i.
Aligned(layers) ==
    /\ Len(layers) = Len(user_data["processed"])
    /\ \A i \in 1..Len(layers) : layers[i] = i

\* C2: the image-overlay and the text-overlay sequence, when not empty, have
\* the length and the order of the validated files, and every merge gives a
\* file no overlay or the overlay generated for that very file.
C2_OverlaysAligned ==
    /\ Get(user_data, "S1_layers", <<>>) # <<>> => Aligned(user_data["S1_layers"])
    /\ Get(user_data, "S2_layers", <<>>) # <<>> => Aligned(user_data["S2_layers"])
    /\ \A m \in Merges :
          /\ last.calls[m].s1 \in {0, last.calls[m].base}
          /\ last.calls[m].s2 \in {0, last.calls[m].base}

-----------------------------------------------------------------------------
(* Restarting the edits *)

\* The last dispatch was the answer "No, restart edits" to the combined or
\* to the final preview.
RestartedEdits ==
    /\ last.ev = Text("No, restart edits")
    /\ last.from \in {"CONFIRM_COMBINED_MEDIA", "CONFIRM_FINAL_MEDIA"}

\* C3: after "No, restart edits" at CONFIRM_COMBINED_MEDIA or at
\* CONFIRM_FINAL_MEDIA the conversation is at ASK_IMAGE_WATERMARK, the
\* validated files are still stored, and the fields derived later
\* (combined_files, final_files) are gone from user_data.
C3_RestartInvalidates ==
    RestartedEdits =>
        /\ stage = "ASK_IMAGE_WATERMARK"
        /\ Has(user_data, "processed")
        /\ ~Has(user_data, "combined_files")
        /\ ~Has(user_data, "final_files")

-----------------------------------------------------------------------------
(* Skipped features *)

\* combine_changes ran in the last dispatch.
CombinationRan == \E i \in 1..Len(last.msgs) : last.msgs[i] = "applying_edits"

\* C4: when combination runs after the user's latest answer to the image
\* (text) watermark question was "No", the image (text) layer sequence is
\* empty and no merge gets an image (text) overlay, whatever an earlier pass
\* had confirmed.
C4_SkippedWatermarkNotMerged ==
    /\ (CombinationRan /\ answered["ASK_IMAGE_WATERMARK"] = "No") =>
          /\ Get(user_data, "S1_layers", <<>>) = <<>>
          /\ \A m \in Merges : last.calls[m].s1 = 0
    /\ (CombinationRan /\ answered["ASK_TEXT_WATERMARK"] = "No") =>
          /\ Get(user_data, "S2_layers", <<>>) = <<>>
          /\ \A m \in Merges : last.calls[m].s2 = 0


\* The audio trims and the merges with an audio of the last dispatch.
AudioTrims == {i \in 1..Len(last.calls) : last.calls[i].op = "trim_audio" /\ last.calls[i].out # S3_preview}
AudioMerges == {m \in Merges : last.calls[m].s3 # 0}

\* C5: combination trims and merges audio only if the user's latest answer
\* to the music question was "Yes" and a validated file is a video; when the
\* latest answer was "No", it trims no audio and merges none onto any file.
\* (A combination that fails ends in cancel, which empties the session.)
C5_MusicOnlyIfOptedIn ==
    (CombinationRan /\ user_data # EmptyDict) =>
        /\ answered["ASK_ADD_MUSIC"] = "No" => AudioTrims = {} /\ AudioMerges = {}
        /\ (AudioTrims # {} \/ AudioMerges # {}) =>
              /\ answered["ASK_ADD_MUSIC"] = "Yes"
              /\ any_video(user_data["processed"])

-----------------------------------------------------------------------------
(* Authentication attempts *)

AuthStages == {"AUTH_2FA", "AUTH_SMS"}

\* A code was submitted in a credential stage and was not accepted.
FailedSubmission ==
    /\ last'.fn \in {"handle_2fa", "handle_sms"}
    /\ last'.ev # Text(CancelText)
    /\ stage' # "MEDIA_TYPE"

\* C6: every code submitted in AUTH_2FA or AUTH_SMS and not accepted adds
\* one to auth_attempts; the conversation ends exactly when the counter then
\* exceeds MAX_AUTH_ATTEMPTS, and otherwise stays in its stage for a retry,
\* so a user is never asked again with a counter above the limit.
C6_AttemptsLimited ==
    [][FailedSubmission =>
          /\ user_data'["auth_attempts"] = user_data["auth_attempts"] + 1
          /\ stage' = END <=> user_data'["auth_attempts"] > MAX_AUTH_ATTEMPTS
          /\ stage' # END => stage' = stage /\ stage' \in AuthStages]_vars

\* The fourth code submitted in AUTH_2FA ended the conversation.
C6_Witness ==
    /\ last.fn = "handle_2fa"
    /\ last.from = "AUTH_2FA"
    /\ stage = END
    /\ user_data["auth_attempts"] = MAX_AUTH_ATTEMPTS + 1

-----------------------------------------------------------------------------
(* Intake *)

\* The last dispatch (primed: the one of this step) announced validation.
ValidationStarted(l) == \E i \in 1..Len(l.msgs) : l.msgs[i] = "starting_validation"

\* start ran in the dispatch: the conversation was restarted.
Restarted(l) == \E i \in 1..Len(l.calls) : l.calls[i].op = "login"

\* The batch a step of intake hands to process_media: the files stored,
\* and the one handle_media has just downloaded.
BatchSize ==
    Len(Get(user_data, "files", <<>>)) + (IF last'.fn = "handle_media" THEN 1 ELSE 0)

WithinBounds(mode, n) ==
    IF mode = "album" THEN n \in MinAlbumFiles..MaxAlbumFiles ELSE n = 1

IsPrefix(xs, ys) == Len(xs) <= Len(ys) /\ \A i \in 1..Len(xs) : xs[i] = ys[i]

\* files only grows while the conversation stays in RECEIVE_MEDIA.
FilesOnlyGrow ==
    (stage = "RECEIVE_MEDIA" /\ stage' = "RECEIVE_MEDIA") =>
        IsPrefix(user_data["files"], user_data'["files"])

\* "Done" on an album of fewer than two files restarts without validation.
SmallAlbumRestarts ==
    (last'.fn = "process_media" /\ user_data["mode"] = "album"
        /\ Len(user_data["files"]) < MinAlbumFiles) =>
        /\ ~ValidationStarted(last')
        /\ Restarted(last')
        /\ ~Has(user_data', "processed")

IntakeStep == last'.fn \in {"handle_media", "process_media"}

\* C7 as stated: validation starts only on a batch within bounds (one file
\* in single mode, two to ten in album mode), files only grows during
\* intake, and "Done" on an album of fewer than two files restarts.
C7_ValidationOnlyWithinBounds ==
    [][IntakeStep =>
          /\ ValidationStarted(last') => WithinBounds(user_data["mode"], BatchSize)
          /\ FilesOnlyGrow
          /\ SmallAlbumRestarts]_vars

\* C7, amended: validation starts only on a batch within bounds or, in
\* single mode, on the empty batch of a "Done" sent before any file, which
\* validates nothing and restarts; a validated batch is stored only from a
\* batch within bounds; files only grows during intake, and "Done" on an
\* album of fewer than two files restarts without validation.
C7_ValidatedOnlyWithinBounds ==
    [][IntakeStep =>
          /\ ValidationStarted(last') =>
                \/ WithinBounds(user_data["mode"], BatchSize)
                \/ /\ user_data["mode"] = "single" /\ BatchSize = 0
                   /\ last'.calls[1].op = "login"
                   /\ Restarted(last') /\ ~Has(user_data', "processed")
          /\ Has(user_data', "processed") =>
                /\ WithinBounds(user_data["mode"], BatchSize)
                /\ Len(user_data'["processed"]) = BatchSize
          /\ FilesOnlyGrow
          /\ SmallAlbumRestarts]_vars

\* An album of ten files was validated.
C7_Witness ==
    /\ last.fn = "process_media"
    /\ stage = "CONFIRM"
    /\ user_data["mode"] = "album"
    /\ Len(user_data["processed"]) = MaxAlbumFiles

-----------------------------------------------------------------------------
(* Validation *)

\* The last dispatch handed a batch to process_media.
Submitted(l) == l.fn = "process_media" \/ (l.fn = "handle_media" /\ l.msgs[1] # "received_file" /\ l.msgs[1] # "already_10")

\* The validated files are the stored files, one for one and in order.
OneToOne(ud) ==
    /\ Len(ud["processed"]) = Len(ud["files"])
    /\ \A i \in 1..Len(ud["files"]) : ud["processed"][i].id = ud["files"][i].id

Unacceptable(f) ==
    \/ f.type = "unsupported"
    \/ f.type \in {"video", "gif"} /\ f.dur > 60

\* The fields the watermark and music stages set.
EditFields ==
    { "image_watermark_path", "img_watermark_position", "img_watermark_scale",
      "img_watermark_opacity", "S1_layers", "text_watermark_text", "text_watermark_font",
      "text_watermark_size", "text_watermark_color", "text_watermark_position", "S2_layers",
      "music_path", "music_start_time", "music_confirmed" }

\* The batch the step hands to process_media, as types and durations.
Batch ==
    LET files == Get(user_data, "files", <<>>)
        stored == [i \in 1..Len(files) |-> [type |-> files[i].type, dur |-> files[i].dur]]
    IN  IF last'.fn = "handle_media"
        THEN Append(stored, [type |-> last'.ev.file.type, dur |-> last'.ev.file.dur])
        ELSE stored

\* C9: when a batch with a file of an unsupported type, or with a video
\* (an animation counts as the video it converts to) longer than 60
\* seconds, is submitted, the batch is abandoned: no validated batch is
\* stored, the conversation does not go to CONFIRM and is restarted, and no
\* watermark or music field is set; whenever the conversation is at CONFIRM,
\* or a validated batch or a watermark or music field is stored, no file of
\* the batch is such a file; a video of exactly 60 seconds, sent in single
\* mode, is accepted.
C9_BadFileAbortsBatch ==
    [][/\ (Submitted(last') /\ \E i \in 1..Len(Batch) : Unacceptable(Batch[i])) =>
             /\ ~Has(user_data', "processed")
             /\ stage' # "CONFIRM"
             /\ Restarted(last')
             /\ EditFields \cap DOMAIN user_data' = {}
       /\ (stage' = "CONFIRM" \/ Has(user_data', "processed")
              \/ EditFields \cap DOMAIN user_data' # {}) =>
             /\ Has(user_data', "processed")
             /\ \A i \in 1..Len(user_data'["files"]) : ~Unacceptable(user_data'["files"][i])
       /\ (Submitted(last') /\ user_data["mode"] = "single"
              /\ Batch = <<[type |-> "video", dur |-> 60]>>) =>
             /\ stage' = "CONFIRM"
             /\ Len(user_data'["processed"]) = 1]_vars

\* A single animation that converts to a video of 61 seconds was refused.
C9_Witness ==
    /\ last.fn = "handle_media"
    /\ last.ev = Animation(61)
    /\ stage = "MEDIA_TYPE"
    /\ Len(last.msgs) >= 2
    /\ last.msgs[2] = "too_long"

\* The last dispatch ended in a batch-fatal validation error.
BatchFatal ==
    /\ Submitted(last)
    /\ \E i \in 1..Len(last.msgs) : last.msgs[i] \in {"album_needs_2", "unsupported", "too_long"}

\* C10: after a batch-fatal validation error the conversation is at
\* MEDIA_TYPE and the abandoned batch is no longer in user_data, whatever the
\* login answers.
C10_FatalErrorRestartsIntake ==
    BatchFatal => stage = "MEDIA_TYPE" /\ ~Has(user_data, "files")

-----------------------------------------------------------------------------
(* Uploading as is *)

\* The last dispatch was the answer "No, Upload As Is" to the validated batch.
UploadAsIs == last.from = "CONFIRM" /\ last.ev = Text("No, Upload As Is")

\* The files, each normalized by process.
Normalized(files) == [i \in 1..Len(files) |-> [files[i] EXCEPT !.norm = TRUE]]

\* C11: the answer "No, Upload As Is" at CONFIRM goes straight to the final
\* normalization of the validated files: the dispatch calls nothing but the
\* normalizer (and, when it fails, what cancel calls), so no merge and no
\* trim; combination does not run; the conversation is at
\* CONFIRM_FINAL_MEDIA with final_files the validated files normalized and
\* no watermark or music field set, or, when the normalizer failed, back at
\* MEDIA_TYPE with an empty session.
C11_UploadAsIsSkipsEdits ==
    UploadAsIs =>
        /\ \A i \in 1..Len(last.calls) : last.calls[i].op \in {"process", "clear_downloads"}
        /\ ~CombinationRan
        /\ last.msgs[1] = "final_processing"
        /\ \/ /\ stage = "CONFIRM_FINAL_MEDIA"
              /\ user_data["combined_files"] = user_data["processed"]
              /\ user_data["final_files"] = Normalized(user_data["processed"])
              /\ EditFields \cap DOMAIN user_data = {}
           \/ /\ stage = "MEDIA_TYPE"
              /\ user_data = EmptyDict

\* An album of two files was normalized as it was validated.
C11_Witness ==
    /\ UploadAsIs
    /\ stage = "CONFIRM_FINAL_MEDIA"
    /\ Len(user_data["final_files"]) = MaxSent
    /\ Len(last.calls) = MaxSent

-----------------------------------------------------------------------------
(* Batches without a video *)

MusicStages == {"ASK_ADD_MUSIC", "RECEIVE_MUSIC", "RECEIVE_MUSIC_START_TIME", "CONFIRM_MUSIC"}

MusicFields == {"music_path", "music_start_time", "music_confirmed"}

TextStages ==
    { "ASK_TEXT_WATERMARK", "RECEIVE_TEXT", "CHOOSE_FONT", "CHOOSE_FONT_SIZE", "CHOOSE_COLOR",
      "CHOOSE_TEXT_POSITION", "CONFIRM_TEXT_WATERMARK" }

\* A validated batch is stored and none of its files is a video.
NoVideoBatch ==
    /\ Has(user_data, "processed")
    /\ \A i \in 1..Len(user_data["processed"]) : user_data["processed"][i].type # "video"

\* The last dispatch said that the music step is skipped.
MusicSkipped == \E i \in 1..Len(last.msgs) : last.msgs[i] = "no_videos_skip_music"

\* C12: while the validated batch holds no video the conversation is in none
\* of the music stages and no music field is set; and the dispatch that
\* leaves the text-watermark sub-flow, by its confirmation or by a skip,
\* announces that music is skipped and runs combination at once, which trims
\* and merges no audio.
C12_NoVideoNoMusic ==
    NoVideoBatch =>
        /\ stage \notin MusicStages
        /\ MusicFields \cap DOMAIN user_data = {}
        /\ (last.from \in TextStages /\ stage \notin TextStages) =>
              /\ MusicSkipped
              /\ CombinationRan
              /\ stage \in {"CONFIRM_COMBINED_MEDIA", "CONFIRM_FINAL_MEDIA"}
              /\ AudioTrims = {} /\ AudioMerges = {}

\* A batch of photos got its text watermark confirmed and was combined.
C12_Witness ==
    /\ NoVideoBatch
    /\ last.from = "CONFIRM_TEXT_WATERMARK"
    /\ MusicSkipped
    /\ stage = "CONFIRM_COMBINED_MEDIA"

-----------------------------------------------------------------------------
(* Offering the effects *)

\* A normalized file is a video.
HasVideo(files) == \E i \in 1..Len(files) : files[i].type = "video"

\* C13: whenever the conversation is at CONFIRM_FINAL_MEDIA, the keyboard
\* the last dispatch presented has the button "Add Video Effects" if and
\* only if one of final_files is a video; its other buttons are always
\* there.
C13_EffectsOfferedIffVideo ==
    stage = "CONFIRM_FINAL_MEDIA" =>
        /\ "Add Video Effects" \in last.kb <=> HasVideo(user_data["final_files"])
        /\ {"Yes, looks good", "No, restart edits", CancelText} \subseteq last.kb

\* The effects are offered for an album of a photo and a video.
C13_Witness ==
    /\ stage = "CONFIRM_FINAL_MEDIA"
    /\ "Add Video Effects" \in last.kb
    /\ \E i \in 1..Len(user_data["final_files"]) : user_data["final_files"][i].type = "image"

-----------------------------------------------------------------------------
(* Selecting effects *)

\* The elements of a sequence differ pairwise.
Distinct(xs) == \A i, j \in 1..Len(xs) : xs[i] = xs[j] => i = j

\* The step dispatches, in CHOOSE_EFFECTS, the name of an effect that is not
\* selected while MaxEffects effects are.
FourthEffect ==
    /\ stage = "CHOOSE_EFFECTS"
    /\ last'.fn = "choose_effects"
    /\ last'.ev.text \in EffectChoices
    /\ Len(user_data["selected_effects"]) = MaxEffects
    /\ ~InSeq(user_data["selected_effects"], last'.ev.text)

\* C14: after every step selected_effects, when set, holds at most three
\* effects, all different; and choosing a fourth, different effect while
\* three are selected leaves the selection as it was, contents and order,
\* keeps the conversation in CHOOSE_EFFECTS and tells the user so.
C14_AtMostThreeDistinct ==
    [][/\ Has(user_data', "selected_effects") =>
             /\ Len(user_data'["selected_effects"]) <= 3
             /\ Distinct(user_data'["selected_effects"])
       /\ FourthEffect =>
             /\ user_data'["selected_effects"] = user_data["selected_effects"]
             /\ stage' = "CHOOSE_EFFECTS"
             /\ last'.msgs = <<"only_3_effects">>]_vars

\* A fourth effect was refused.
C14_Witness ==
    /\ stage = "CHOOSE_EFFECTS"
    /\ last.fn = "choose_effects"
    /\ last.msgs = <<"only_3_effects">>
    /\ Len(user_data["selected_effects"]) = 3
    /\ ~InSeq(user_data["selected_effects"], last.ev.text)

\* The selection after the effect c is chosen twice in a row, starting from
\* the session ud.
ToggledTwice(ud, c) ==
    choose_effects(choose_effects(ud, Text(c), {}).ud, Text(c), {}).ud["selected_effects"]

\* C15: in every state of CHOOSE_EFFECTS the conversation reaches, and for
\* every effect the user can choose, choosing that effect twice in a row
\* gives back the selection as it was, same contents in the same order,
\* whether the effect was selected before or not.
C15_ToggleTwiceRestores ==
    stage = "CHOOSE_EFFECTS" =>
        \A c \in EffectChoices : ToggledTwice(user_data, c) = user_data["selected_effects"]

-----------------------------------------------------------------------------
(* Applying effects *)

\* The calls of the effect engine in the last dispatch for file i.
EffectCalls(i) ==
    {k \in 1..Len(last.calls) :
        last.calls[k].op = "apply_effects_in_sequence" /\ last.calls[k].n = i}

\* The engine raised for file i in the last dispatch.
EffectsFailed(i) == \E k \in EffectCalls(i) : ~last.calls[k].ok

\* C16: at CONFIRM_EFFECTS final_files_with_effects is as long as
\* final_files and file for file in its order: a file that is no video is
\* the file of final_files unchanged and the engine was not called for it; a
\* video was handed to the engine once with the selection, and is that
\* video with the selected effects applied in the order of the selection,
\* or, when the engine raised for it, that video without effects, the other
\* files being treated as if nothing had failed.
C16_EffectsPerFile ==
    stage = "CONFIRM_EFFECTS" =>
        LET before == user_data["final_files"]
            after == user_data["final_files_with_effects"]
            selected == user_data["selected_effects"]
        IN  /\ Len(after) = Len(before)
            /\ \A i \in 1..Len(before) :
                  IF before[i].type # "video"
                  THEN after[i] = before[i] /\ EffectCalls(i) = {}
                  ELSE /\ Cardinality(EffectCalls(i)) = 1
                       /\ \A k \in EffectCalls(i) : last.calls[k].effects = selected
                       /\ after[i] = IF EffectsFailed(i) THEN before[i]
                                     ELSE [before[i] EXCEPT !.fx = @ \o selected]

\* Of two videos the engine failed on the first; the second got two effects.
C16_Witness ==
    /\ stage = "CONFIRM_EFFECTS"
    /\ Len(user_data["final_files"]) = 2
    /\ EffectsFailed(1)
    /\ user_data["final_files_with_effects"][1] = user_data["final_files"][1]
    /\ user_data["final_files"][2].type = "video"
    /\ Len(user_data["final_files_with_effects"][2].fx) = 2

\* The stages of the effects sub-flow.
EffectStages == {"CHOOSE_EFFECTS", "CONFIRM_EFFECTS"}

\* No file has an effect applied.
Uneffected(files) == \A i \in 1..Len(files) : files[i].fx = <<>>

\* The step confirms the effects at CONFIRM_EFFECTS.
EffectsConfirmed == last'.fn = "handle_effects_confirmation" /\ last'.ev = Text("Yes, upload")

\* The step answers "No, restart effects" at CONFIRM_EFFECTS.
EffectsRestarted ==
    last'.fn = "handle_effects_confirmation" /\ last'.ev = Text("No, restart effects")

\* C17: a step taken in the effects sub-flow that keeps the session changes
\* final_files only when it is the confirmation at CONFIRM_EFFECTS, and then
\* final_files becomes the whole of final_files_with_effects; choosing
\* effects and applying them leave final_files as it was, the applied result
\* going to final_files_with_effects; and after "No, restart effects"
\* final_files is unchanged and holds the normalized files without effects.
C17_EffectsStagedUntilConfirmed ==
    [][(stage \in EffectStages /\ user_data' # EmptyDict) =>
          /\ IF EffectsConfirmed
             THEN user_data'["final_files"] = user_data["final_files_with_effects"]
             ELSE user_data'["final_files"] = user_data["final_files"]
          /\ stage' = "CONFIRM_EFFECTS" => Has(user_data', "final_files_with_effects")
          /\ stage' \in EffectStages => Uneffected(user_data'["final_files"])
          /\ EffectsRestarted =>
                /\ stage' = "CHOOSE_EFFECTS"
                /\ user_data'["final_files"] = Normalized(user_data'["combined_files"])]_vars

\* The effects applied to a video were given up: final_files_with_effects
\* still holds the effected video, final_files the video without effects.
C17_Witness ==
    /\ last.fn = "handle_effects_confirmation"
    /\ last.ev = Text("No, restart effects")
    /\ stage = "CHOOSE_EFFECTS"
    /\ user_data["final_files_with_effects"][1].fx # <<>>
    /\ user_data["final_files"][1].fx = <<>>

-----------------------------------------------------------------------------
(* Retrying *)

\* The handlers of the stages that confirm a preview or ask to retry it.
RetryHandlers ==
    { "handle_img_watermark_confirmation", "handle_text_watermark_confirmation",
      "handle_music_confirmation", "handle_effects_confirmation" }

\* The step answers a preview confirmation with its retry option.
RetryStep ==
    /\ last'.fn \in RetryHandlers
    /\ last'.ev \in Texts({"No, Retry", "No, restart effects"})

\* C18: choosing the retry option at CONFIRM_IMG_WATERMARK,
\* CONFIRM_TEXT_WATERMARK, CONFIRM_MUSIC or CONFIRM_EFFECTS leaves user_data
\* exactly as it was before the answer (the handler may remove a preview
\* file, which is no part of user_data).
C18_RetryLeavesSessionUnchanged ==
    [][RetryStep => user_data' = user_data]_vars

\* The stage whose handler generates the preview that each confirmation
\* stage shows: the image watermark preview is generated on the opacity, the
\* text watermark preview on the position, the music preview on the start
\* time.
PreviewStageOf(st) ==
    CASE st = "CONFIRM_IMG_WATERMARK" -> "CHOOSE_IMG_WATERMARK_OPACITY"
      [] st = "CONFIRM_TEXT_WATERMARK" -> "CHOOSE_TEXT_POSITION"
      [] st = "CONFIRM_MUSIC" -> "RECEIVE_MUSIC_START_TIME"

PreviewConfirmations == {"CONFIRM_IMG_WATERMARK", "CONFIRM_TEXT_WATERMARK", "CONFIRM_MUSIC"}

\* The fields set before the sub-flows of the preview confirmations, and by
\* the watermark sub-flows confirmed earlier.
UpstreamFields == {"mode", "files", "processed", "S1_layers", "S2_layers"}

\* The step answers "No, Retry" at a preview confirmation.
PreviewRetried == stage \in PreviewConfirmations /\ last'.ev = Text("No, Retry")

\* C19: the answer "No, Retry" at CONFIRM_IMG_WATERMARK,
\* CONFIRM_TEXT_WATERMARK or CONFIRM_MUSIC takes the conversation to the
\* stage whose handler generates the preview just refused, and keeps every
\* upstream field (the files, the validated files, the layers confirmed by
\* earlier sub-flows) as it was.
C19_RetryReturnsToPreviewStage ==
    [][PreviewRetried =>
          /\ stage' = PreviewStageOf(stage)
          /\ \A k \in UpstreamFields :
                /\ Has(user_data', k) <=> Has(user_data, k)
                /\ Has(user_data, k) => user_data'[k] = user_data[k]]_vars

-----------------------------------------------------------------------------
(* Combination without edits *)

\* The session holds no image layer, no text layer and no confirmed music.
NothingToCombine ==
    /\ Get(user_data, "S1_layers", <<>>) = <<>>
    /\ Get(user_data, "S2_layers", <<>>) = <<>>
    /\ ~Get(user_data, "music_confirmed", FALSE)

\* The audio trims of the last dispatch.
Trims == {i \in 1..Len(last.calls) : last.calls[i].op = "trim_audio"}

\* The last dispatch said that no edits were selected.
PassedThrough == \E i \in 1..Len(last.msgs) : last.msgs[i] = "no_edits"

\* C20: when combination has run on a session without image layer, text
\* layer and confirmed music, combined_files is the validated batch itself,
\* no merge and no trim was called, and the same dispatch went on to the
\* final normalization, so that the conversation is at CONFIRM_FINAL_MEDIA;
\* a dispatch that passes through calls no merge and no trim even when the
\* normalization then fails; and the conversation is at
\* CONFIRM_COMBINED_MEDIA only with something to combine.
C20_NoEditsPassThrough ==
    /\ (CombinationRan /\ user_data # EmptyDict /\ NothingToCombine) =>
          /\ PassedThrough
          /\ user_data["combined_files"] = user_data["processed"]
          /\ Merges = {} /\ Trims = {}
          /\ stage = "CONFIRM_FINAL_MEDIA"
          /\ user_data["final_files"] = Normalized(user_data["processed"])
    /\ PassedThrough =>
          /\ Merges = {} /\ Trims = {}
          /\ stage \in {"CONFIRM_FINAL_MEDIA", "MEDIA_TYPE"}
    /\ stage = "CONFIRM_COMBINED_MEDIA" => ~NothingToCombine

\* A video went through both watermark questions and the music question
\* with "No" and was normalized as it was validated.
C20_Witness ==
    /\ last.from = "ASK_ADD_MUSIC"
    /\ last.ev = Text("No")
    /\ PassedThrough
    /\ stage = "CONFIRM_FINAL_MEDIA"
    /\ user_data["combined_files"] = user_data["processed"]

-----------------------------------------------------------------------------
(* Failures of the mandatory stages *)

\* The last dispatch reported that a merge or a normalization failed.
MergeFailed == \E i \in 1..Len(last.msgs) : last.msgs[i] = "combine_error"
NormalizationFailed == \E i \in 1..Len(last.msgs) : last.msgs[i] = "final_processing_error"

\* C21: when the merge of a file fails in combination, or the normalization
\* of a file fails in final normalization, the dispatch ends as cancel does:
\* the conversation is at MEDIA_TYPE, user_data is empty (so neither
\* combined_files nor final_files holds the files done before the failure)
\* and the downloads are cleared; and whenever combined_files or final_files
\* is stored it has one file for each validated file.
C21_MandatoryFailureAbortsBatch ==
    /\ (MergeFailed \/ NormalizationFailed) =>
          /\ stage = "MEDIA_TYPE"
          /\ user_data = EmptyDict
          /\ last.calls[Len(last.calls)] = [op |-> "clear_downloads"]
          /\ last.kb = {"Album", "Single", CancelText}
    /\ Has(user_data, "combined_files") =>
          Len(user_data["combined_files"]) = Len(user_data["processed"])
    /\ Has(user_data, "final_files") =>
          Len(user_data["final_files"]) = Len(user_data["processed"])

\* The merge of the second file of an album failed after the first was merged.
C21_Witness ==
    /\ MergeFailed
    /\ Cardinality(Merges) = 2
    /\ stage = "MEDIA_TYPE"
    /\ user_data = EmptyDict

-----------------------------------------------------------------------------
(* Music: the preview and the final trims *)

\* The trims of the last dispatch that write the preview file.
PreviewTrims ==
    {i \in 1..Len(last.calls) :
        last.calls[i].op = "trim_audio" /\ last.calls[i].out = S3_preview}

\* The durations of the validated videos.
VideoDurations ==
    {user_data["processed"][i].dur : i \in {j \in 1..Len(user_data["processed"]) :
                                               user_data["processed"][j].type = "video"}}

\* The call trims the music of the session from its start offset.
FromTheMusic(c) ==
    c.audio = user_data["music_path"] /\ c.start = user_data["music_start_time"]

\* C22: the dispatch that shows the music preview trims once, into the
\* preview file, from the music received and the start offset entered, to a
\* duration that is the duration of a validated video and not below that of
\* any other; and when combination runs with music confirmed, every video
\* gets one trim of its own, from the same music and the same start offset,
\* to that video's duration and into that video's own file, and every merge
\* takes as audio nothing or the file trimmed for the very file it merges,
\* never the preview file.
C22_PreviewLongestThenPerVideo ==
    /\ (last.fn = "receive_music_start_time" /\ stage = "CONFIRM_MUSIC") =>
          /\ Cardinality(PreviewTrims) = 1
          /\ AudioTrims = {} /\ Merges = {}
          /\ \A t \in PreviewTrims :
                /\ FromTheMusic(last.calls[t])
                /\ last.calls[t].dur \in VideoDurations
                /\ \A d \in VideoDurations : d <= last.calls[t].dur
    /\ (CombinationRan /\ user_data # EmptyDict) =>
          /\ PreviewTrims = {}
          /\ \A m \in Merges :
                /\ last.calls[m].s3 # S3_preview
                /\ last.calls[m].s3 # 0 =>
                      /\ last.calls[m].s3 = last.calls[m].base
                      /\ \E t \in AudioTrims : t < m /\ last.calls[t].out = last.calls[m].s3
          /\ \A t \in AudioTrims :
                /\ FromTheMusic(last.calls[t])
                /\ last.calls[t].out \in 1..Len(user_data["processed"])
                /\ user_data["processed"][last.calls[t].out].type = "video"
                /\ last.calls[t].dur = user_data["processed"][last.calls[t].out].dur
                /\ \A u \in AudioTrims : last.calls[u].out = last.calls[t].out => u = t
          /\ Get(user_data, "music_confirmed", FALSE) =>
                \A i \in 1..Len(user_data["processed"]) :
                    user_data["processed"][i].type = "video" =>
                        \E t \in AudioTrims : last.calls[t].out = i

\* An album of a video of 30 and a video of 60 seconds was combined with
\* music: one trim of 30 and one of 60 seconds.
C22_Witness ==
    /\ CombinationRan
    /\ stage = "CONFIRM_COMBINED_MEDIA"
    /\ Cardinality(AudioMerges) = 2
    /\ {last.calls[t].dur : t \in AudioTrims} = {30, 60}

-----------------------------------------------------------------------------
(* Publishing *)

UploadOps == {"upload_album", "upload_video", "upload_photo"}

\* The calls of the Publisher in the last dispatch.
Uploads == {i \in 1..Len(last.calls) : last.calls[i].op \in UploadOps}

\* C23: a dispatch that called the Publisher leaves the conversation at
\* MEDIA_TYPE with user_data empty and the mode keyboard shown, whether the
\* upload succeeded or failed: it reports the one or the other, announces a
\* new project and sends the welcome; and in every state of CAPTION, for
\* every caption, the handler's result on a failing upload is its result on
\* a successful one except for that one message.
C23_PublishAlwaysResets ==
    /\ Uploads # {} =>
          /\ last.fn = "handle_caption_and_upload"
          /\ stage = "MEDIA_TYPE"
          /\ user_data = EmptyDict
          /\ last.kb = {"Album", "Single", CancelText}
          /\ Len(last.msgs) = 5
          /\ last.msgs[1] = "uploading"
          /\ last.msgs[2] \in {"upload_successful", "upload_error"}
          /\ <<last.msgs[3], last.msgs[4], last.msgs[5]>> = <<"new_project", "welcome", "choose_mode">>
          /\ last.calls[Len(last.calls)] = [op |-> "clear_downloads"]
    /\ stage = "CAPTION" =>
          LET ok == handle_caption_and_upload(user_data, Text("hello"), "ok")
              failed == handle_caption_and_upload(user_data, Text("hello"), "fail")
          IN  /\ failed.next = ok.next /\ failed.ud = ok.ud
              /\ failed.calls = ok.calls /\ failed.kb = ok.kb
              /\ Len(failed.msgs) = Len(ok.msgs)
              /\ \A i \in 1..Len(ok.msgs) : i # 2 => failed.msgs[i] = ok.msgs[i]

\* The upload of an album failed and the conversation is back at intake.
C23_Witness ==
    /\ Uploads # {}
    /\ last.msgs[2] = "upload_error"
    /\ last.calls[1].op = "upload_album"
    /\ stage = "MEDIA_TYPE"
    /\ user_data = EmptyDict

\* The calls of the Publisher in the dispatch of this step.
UploadsNow == {i \in 1..Len(last'.calls) : last'.calls[i].op \in UploadOps}

\* Scenario A before the caption: a single image that went from validation
\* to final normalization by "No, Upload As Is" (no question about a
\* watermark or music was answered in this session).
ScenarioA ==
    /\ stage = "CAPTION"
    /\ user_data["mode"] = "single"
    /\ user_data["processed"][1].type = "image"
    /\ answered = NoAnswers
    /\ ~Has(user_data, "selected_effects")

\* C24: the Publisher is called only in a dispatch of the caption handler
\* from CAPTION, once, and that dispatch resets the session, so that no
\* second call can follow before the next reset; in album mode the call is
\* publish-album with all of final_files in their order, in single mode it
\* is publish-single (video or photo, after the file) with the one final
\* file; in scenario A the file published is the image received, normalized
\* and otherwise untouched, and publish-photo is called once.
C24_PublishOncePerSession ==
    [][/\ UploadsNow # {} =>
             /\ stage = "CAPTION"
             /\ last'.fn = "handle_caption_and_upload"
             /\ UploadsNow = {1}
             /\ user_data' = EmptyDict /\ stage' = "MEDIA_TYPE"
             /\ last'.calls[1].caption = last'.ev.text
             /\ IF user_data["mode"] = "album"
                THEN /\ last'.calls[1].op = "upload_album"
                     /\ last'.calls[1].paths = user_data["final_files"]
                ELSE /\ Len(user_data["final_files"]) = 1
                     /\ last'.calls[1].paths = user_data["final_files"]
                     /\ last'.calls[1].op =
                            IF user_data["final_files"][1].type = "video"
                            THEN "upload_video" ELSE "upload_photo"
       /\ (ScenarioA /\ last'.ev # Text(CancelText) /\ last'.fn = "handle_caption_and_upload") =>
             /\ UploadsNow = {1}
             /\ last'.calls[1].op = "upload_photo"
             /\ last'.calls[1].paths =
                    <<[user_data["processed"][1] EXCEPT !.norm = TRUE]>>]_vars

\* Scenario A was published.
C24_Witness ==
    /\ last.fn = "handle_caption_and_upload"
    /\ Len(last.calls) = 2
    /\ last.calls[1].op = "upload_photo"
    /\ last.calls[1].paths[1].norm
    /\ last.calls[1].paths[1].s1 = 0
    /\ stage = "MEDIA_TYPE"

-----------------------------------------------------------------------------
(* Scenario B *)

\* The session ud is that of scenario B: an album of three videos, the image
\* watermark confirmed, the text watermark declined, music with the start
\* offset 00:05 confirmed.
ScenarioB(ud) ==
    /\ Get(ud, "mode", "none") = "album"
    /\ Len(Get(ud, "processed", <<>>)) = 3
    /\ \A i \in 1..3 : ud["processed"][i].type = "video"
    /\ answered = [ASK_IMAGE_WATERMARK |-> "Yes", ASK_TEXT_WATERMARK |-> "No", ASK_ADD_MUSIC |-> "Yes"]
    /\ Get(ud, "music_start_time", "none") = "00:05"
    /\ Get(ud, "music_confirmed", FALSE)

\* The merges and the audio trims of the dispatch of this step.
MergesNow == {i \in 1..Len(last'.calls) : last'.calls[i].op = "merge"}
TrimsNow == {i \in 1..Len(last'.calls) : last'.calls[i].op = "trim_audio"}

\* C25: in scenario B the dispatch that confirms the music merges exactly
\* three times, file by file, each merge with the image layer generated for
\* its file, no text layer, and the audio trimmed for its file in that
\* dispatch from 00:05 (three different audio files); the dispatch that
\* applies the effects [Glitch, Vignette] calls the engine for each of the
\* three videos with these effects in this order; and the caption handler
\* calls publish-album once with three files, each the video received with
\* its own layer, its own audio, normalized, with Glitch then Vignette.
C25_ScenarioB ==
    [][/\ (ScenarioB(user_data') /\ last'.fn = "handle_music_confirmation") =>
             /\ stage' = "CONFIRM_COMBINED_MEDIA"
             /\ Cardinality(MergesNow) = 3 /\ Cardinality(TrimsNow) = 3
             /\ \A i \in 1..3 :
                   \E m \in MergesNow, t \in TrimsNow :
                       /\ t < m
                       /\ last'.calls[m].base = i /\ last'.calls[m].s1 = i
                       /\ last'.calls[m].s2 = 0 /\ last'.calls[m].s3 = i
                       /\ last'.calls[t].out = i /\ last'.calls[t].start = "00:05"
                       /\ last'.calls[t].dur = user_data'["processed"][i].dur
       /\ (ScenarioB(user_data') /\ last'.fn = "choose_effects" /\ stage' = "CONFIRM_EFFECTS"
              /\ user_data'["selected_effects"] = <<"Glitch", "Vignette">>) =>
             /\ Len(last'.calls) = 3
             /\ \A i \in 1..3 :
                   /\ last'.calls[i] = [op |-> "apply_effects_in_sequence", n |-> i,
                                        effects |-> <<"Glitch", "Vignette">>, ok |-> TRUE]
                   /\ user_data'["final_files_with_effects"][i].fx = <<"Glitch", "Vignette">>
       /\ (ScenarioB(user_data) /\ last'.fn = "handle_caption_and_upload"
              /\ last'.ev # Text(CancelText)
              /\ Get(user_data, "selected_effects", <<>>) = <<"Glitch", "Vignette">>) =>
             /\ UploadsNow = {1}
             /\ last'.calls[1].op = "upload_album"
             /\ Len(last'.calls[1].paths) = 3
             /\ \A i \in 1..3 :
                   last'.calls[1].paths[i] =
                       [user_data["processed"][i] EXCEPT !.s1 = i, !.s2 = 0, !.s3 = i,
                                                         !.norm = TRUE,
                                                         !.fx = <<"Glitch", "Vignette">>]]_vars

\* Scenario B was published.
C25_Witness ==
    /\ last.fn = "handle_caption_and_upload"
    /\ last.calls[1].op = "upload_album"
    /\ Len(last.calls[1].paths) = 3
    /\ \A i \in 1..3 :
          /\ last.calls[1].paths[i].type = "video"
          /\ last.calls[1].paths[i].s1 = i
          /\ last.calls[1].paths[i].s3 = i
          /\ last.calls[1].paths[i].fx = <<"Glitch", "Vignette">>

-----------------------------------------------------------------------------
(* The idle timeout *)

\* C26: when the idle timeout ends a conversation, the session is left as
\* cancel leaves it: user_data is empty and the downloads are cleared.
C26_TimeoutDiscardsSession ==
    last.fn = "timeout" =>
        /\ stage = END
        /\ user_data = EmptyDict
        /\ \E i \in 1..Len(last.calls) : last.calls[i].op = "clear_downloads"

-----------------------------------------------------------------------------
(* Handlers that raise *)

\* The handler of the last dispatch raised.
HandlerRaised == \E i \in 1..Len(last.calls) : last.calls[i].op = "raise"

\* C27: when the handler of a dispatch raises, the failure is reported to the
\* user and the conversation is at MEDIA_TYPE with user_data empty.
C27_RaisingHandlerResets ==
    HandlerRaised =>
        /\ last.msgs # <<>>
        /\ stage = "MEDIA_TYPE"
        /\ user_data = EmptyDict

-----------------------------------------------------------------------------
(* Input the stage does not accept *)

\* The update of the step is outside what its stage asks for, and the handler
\* that took it returned.
UserInputError ==
    /\ last' # last
    /\ last'.ev \in Strays(last'.from)
    /\ \A i \in 1..Len(last'.calls) : last'.calls[i].op # "raise"

\* C28: an input the stage does not accept (a text that names no offered
\* option, a start time the trimmer rejects, a watermark image outside
\* 120-480 px) keeps the session in its stage, is answered with a prompt, and
\* changes no field of user_data.
C28_UserInputErrorHandledLocally ==
    [][UserInputError =>
          /\ stage' = last'.from
          /\ last'.msgs # <<>>
          /\ user_data' = user_data]_vars

-----------------------------------------------------------------------------
(* The text watermark, once asked for *)

\* The stages the session is in only after 'Yes' at ASK_TEXT_WATERMARK and
\* before the preview of the text watermark is shown.
TextEntryStages ==
    {"RECEIVE_TEXT", "CHOOSE_FONT", "CHOOSE_FONT_SIZE", "CHOOSE_COLOR", "CHOOSE_TEXT_POSITION"}

\* The stages of the workflow after the text watermark.
AfterTextStages ==
    MusicStages \cup {"CONFIRM_COMBINED_MEDIA", "CONFIRM_FINAL_MEDIA", "ASK_VIDEO_EFFECTS",
                      "CHOOSE_EFFECTS", "CONFIRM_EFFECTS", "CAPTION"}

\* C30: after 'Yes' at ASK_TEXT_WATERMARK the session reaches the music and
\* combination stages only through CONFIRM_TEXT_WATERMARK: no step leads from
\* a stage of entering the text watermark straight to a stage after it.
C30_TextWatermarkPassesConfirmation ==
    [][(stage \in TextEntryStages /\ answered["ASK_TEXT_WATERMARK"] = "Yes")
          => stage' \notin AfterTextStages]_vars

-----------------------------------------------------------------------------
(* Sessions of two users in parallel *)

\* The counter's part of the name download_media gives a media file.
MediaName(n) == ToString(n)

\* The names of the files of a list.
NamesOf(files) == {MediaName(files[i].id) : i \in 1..Len(files)}

\* The downloads directory after the calls of a handler of user u, in their
\* order: a download writes its file, send_welcome_message removes every file
\* there is.
RECURSIVE DirAfter(_, _, _)
DirAfter(dir, calls, u) ==
    IF calls = <<>> THEN dir
    ELSE LET c == Head(calls)
             d == IF c.op = "clear_downloads" THEN {}
                  ELSE IF c.op = "download"
                  THEN {f \in dir : f.name # c.out} \cup {[name |-> c.out, by |-> u]}
                  ELSE dir
         IN  DirAfter(d, Tail(calls), u)

\* Of the files a handler of user u reads: those that are gone, and those
\* another session has written since.
Missing(names) == {nm \in names : \A f \in downloads : f.name # nm}
Lost(names, u) == {nm \in names : [name |-> nm, by |-> u] \notin downloads}

\* handle_media with the file named by the global counter, as download_media
\* names it.
handle_media_counted(ud, ev, lg, n) ==
    LET mode == Get(ud, "mode", "single")
        files == Get(ud, "files", <<>>)
        ud1 == Put(ud, "files", Append(files, download_media(ev, n)))
        call == <<[op |-> "download", out |-> MediaName(n)]>>
    IN  IF AlbumFull(mode, files)
        THEN Ret("RECEIVE_MEDIA", Put(ud, "files", files), <<>>, <<"already_10">>, {})
        ELSE IF mode = "single" THEN After(call, <<>>, process_media(ud1, lg))
        ELSE Ret("RECEIVE_MEDIA", ud1, call, <<"received_file">>, {})

\* A handler of user u's conversation returned r, having read `names`.
ParApply(u, r, names) ==
    /\ sessions' = [sessions EXCEPT ![u] = [stage |-> r.next, ud |-> r.ud, lost |-> Lost(names, u)]]
    /\ downloads' = DirAfter(downloads, r.calls, u)
    /\ UNCHANGED <<stage, user_data, bot_data, last, answered, budget, authenticated>>

Par_start(u) ==
    /\ ParApply(u, start(sessions[u].ud, "ok"), {})
    /\ UNCHANGED media_counter

Par_cancel(u) ==
    /\ Handler(sessions[u].stage, Command("/cancel")) = "cancel"
    /\ ParApply(u, cancel(sessions[u].ud), {})
    /\ UNCHANGED media_counter

Par_handle_media_type(u) ==
    \E ev \in Texts({"Album", "Single"}) :
        /\ Handler(sessions[u].stage, ev) = "handle_media_type"
        /\ ParApply(u, handle_media_type(sessions[u].ud, ev), {})
        /\ UNCHANGED media_counter

Par_handle_media(u) ==
    LET ev == Video("video", 60) IN
        /\ Handler(sessions[u].stage, ev) = "handle_media"
        /\ media_counter <= MaxDownloads
        /\ ParApply(u, handle_media_counted(sessions[u].ud, ev, "ok", media_counter), {})
        /\ media_counter' = media_counter + 1

\* 'Done': FileValidator.validate reads every file of the album.  A file
\* that is gone makes it fail: with ValueError, which process_media answers
\* with start, or with another exception, which leaves the handler.
Par_process_media(u) ==
    LET ev == Text("Done")
        ud == sessions[u].ud
        names == NamesOf(Get(ud, "files", <<>>))
    IN  /\ Handler(sessions[u].stage, ev) = "process_media"
        /\ \E r \in IF AlbumTooSmall(Get(ud, "mode", "none"), Get(ud, "files", <<>>)) \/ Missing(names) = {}
                    THEN {process_media(ud, "ok")}
                    ELSE {After(<<>>, <<"starting_validation", "validation_error">>, start(ud, "ok")),
                          Raised("RECEIVE_MEDIA", ud, <<>>)} :
               ParApply(u, r, IF AlbumTooSmall(Get(ud, "mode", "none"), Get(ud, "files", <<>>))
                              THEN {} ELSE names)
        /\ UNCHANGED media_counter

Par_handle_confirmation(u) ==
    LET ev == Text("Yes, continue") IN
        /\ Handler(sessions[u].stage, ev) = "handle_confirmation"
        /\ ParApply(u, handle_confirmation(sessions[u].ud, ev, 0), {})
        /\ UNCHANGED media_counter

Par_ask_image_watermark(u) ==
    LET ev == Text("No") IN
        /\ Handler(sessions[u].stage, ev) = "ask_image_watermark"
        /\ ParApply(u, ask_image_watermark(sessions[u].ud, ev), {})
        /\ UNCHANGED media_counter

Par_handle_ask_text_watermark(u) ==
    LET ev == Text("No") IN
        /\ Handler(sessions[u].stage, ev) = "handle_ask_text_watermark"
        /\ ParApply(u, handle_ask_text_watermark(sessions[u].ud, ev, {}, 0, 0), {})
        /\ UNCHANGED media_counter

Par_ask_add_music(u) ==
    LET ev == Text("Yes") IN
        /\ Handler(sessions[u].stage, ev) = "ask_add_music"
        /\ ParApply(u, ask_add_music(sessions[u].ud, ev, {}, 0, 0), {})
        /\ UNCHANGED media_counter

Par_receive_music(u) ==
    /\ Handler(sessions[u].stage, Audio) = "receive_music"
    /\ ParApply(u, receive_music(sessions[u].ud, Audio), {})
    /\ UNCHANGED media_counter

\* The start time: get_video_duration reads the videos, trim_audio reads
\* music_path; it fails when the music is gone.
Par_receive_music_start_time(u) ==
    LET ev == Text("00:05")
        ud == sessions[u].ud
        names == {ud["music_path"]} \cup NamesOf(VideosOf(Get(ud, "processed", <<>>)))
        tr == IF Missing({ud["music_path"]}) = {} THEN "ok" ELSE "error"
    IN  /\ Handler(sessions[u].stage, ev) = "receive_music_start_time"
        /\ ParApply(u, receive_music_start_time(ud, ev, tr, {}, 0, 0), names)
        /\ UNCHANGED media_counter

InitParallel == InitOf(MainEnv)

NextParallel ==
    \E u \in Users :
        \/ Par_start(u)
        \/ Par_cancel(u)
        \/ Par_handle_media_type(u)
        \/ Par_handle_media(u)
        \/ Par_process_media(u)
        \/ Par_handle_confirmation(u)
        \/ Par_ask_image_watermark(u)
        \/ Par_handle_ask_text_watermark(u)
        \/ Par_ask_add_music(u)
        \/ Par_receive_music(u)
        \/ Par_receive_music_start_time(u)

SpecParallel == InitParallel /\ [][NextParallel]_vars

\* Every media file the sessions hold got its own counter value.
DistinctCounterValues ==
    \A u, v \in Users :
        \A i \in 1..Len(Get(sessions[u].ud, "files", <<>>)) :
            \A j \in 1..Len(Get(sessions[v].ud, "files", <<>>)) :
                (<<u, i>> # <<v, j>>) => sessions[u].ud["files"][i].id # sessions[v].ud["files"][j].id

\* No handler read a file that another session had deleted or overwritten.
NoLostRead == \A u \in Users : sessions[u].lost = {}

\* C29: sessions of different users share the counter and nothing else: no
\* handler of one session finds a file it reads deleted or overwritten by
\* what another session did, and no two downloads get the same counter value.
C29_SessionsShareOnlyTheCounter == NoLostRead /\ DistinctCounterValues

-----------------------------------------------------------------------------
(* Fields read without a default *)

\* The user restarts with /start, or lets the conversation time out, in any
\* stage, and sends one video of 60 seconds.
ReentryEnv ==
    [media |-> {Video("video", 60)}, varied |-> 1, more |-> {}, sent |-> 1,
     effects |-> {"Glitch"},
     interruptible |-> States \cup {END},
     deviations |-> MaxDeviations, avoid |-> {}]

InitReentry == InitOf(ReentryEnv)

NextReentry ==
    \/ Do_start(ReentryEnv)
    \/ Do_cancel(ReentryEnv)
    \/ Do_handle_2fa(ReentryEnv)
    \/ Do_handle_sms(ReentryEnv)
    \/ Do_handle_media_type(ReentryEnv)
    \/ Do_handle_media(ReentryEnv)
    \/ Do_process_media(ReentryEnv)
    \/ Do_handle_confirmation(ReentryEnv)
    \/ Do_ask_image_watermark(ReentryEnv)
    \/ Do_receive_image_watermark(ReentryEnv)
    \/ Do_handle_img_position(ReentryEnv)
    \/ Do_handle_img_scale(ReentryEnv)
    \/ Do_generate_and_preview_image_watermark(ReentryEnv)
    \/ Do_handle_img_watermark_confirmation(ReentryEnv)
    \/ Do_handle_ask_text_watermark(ReentryEnv)
    \/ Do_receive_text(ReentryEnv)
    \/ Do_handle_font(ReentryEnv)
    \/ Do_handle_font_size(ReentryEnv)
    \/ Do_handle_color(ReentryEnv)
    \/ Do_generate_and_preview_text_watermark(ReentryEnv)
    \/ Do_handle_text_watermark_confirmation(ReentryEnv)
    \/ Do_ask_add_music(ReentryEnv)
    \/ Do_receive_music(ReentryEnv)
    \/ Do_receive_music_start_time(ReentryEnv)
    \/ Do_handle_music_confirmation(ReentryEnv)
    \/ Do_handle_combined_media_confirmation(ReentryEnv)
    \/ Do_handle_final_confirmation(ReentryEnv)
    \/ Do_choose_effects(ReentryEnv)
    \/ Do_handle_effects_confirmation(ReentryEnv)
    \/ Do_handle_caption_and_upload(ReentryEnv)
    \/ conversation_timeout(ReentryEnv)

SpecReentry == InitReentry /\ [][NextReentry]_vars

ImageParameters == {"image_watermark_path", "img_watermark_position", "img_watermark_scale"}
TextParameters ==
    {"text_watermark_text", "text_watermark_font", "text_watermark_size", "text_watermark_color"}

\* The fields the handler registered for a stage reads as user_data['k'].
ReadWithoutDefault(st) ==
    CASE st \in {"AUTH_2FA", "AUTH_SMS"} -> {"auth_attempts"}
      [] st = "CONFIRM" -> {"processed"}
      [] st = "CHOOSE_IMG_WATERMARK_OPACITY" -> {"processed"} \cup ImageParameters
      [] st = "CONFIRM_IMG_WATERMARK" -> {"processed", "img_watermark_opacity"} \cup ImageParameters
      [] st = "CHOOSE_TEXT_POSITION" -> {"processed"} \cup TextParameters
      [] st = "CONFIRM_TEXT_WATERMARK" -> {"processed", "text_watermark_position"} \cup TextParameters
      [] st = "RECEIVE_MUSIC_START_TIME" -> {"music_path"}
      [] st = "CONFIRM_COMBINED_MEDIA" -> {"combined_files"}
      [] st = "CHOOSE_EFFECTS" -> {"final_files", "selected_effects"}
      [] st = "CONFIRM_EFFECTS" -> {"final_files_with_effects"}
      [] OTHER -> {}

\* C31: in every stage, however it was reached, user_data holds each field
\* the stage's handler reads without a default; and once the music is
\* confirmed it holds the two fields combine_changes then reads.
C31_FieldsSetBeforeRead ==
    /\ \A k \in ReadWithoutDefault(stage) : Has(user_data, k)
    /\ Get(user_data, "music_confirmed", FALSE) =>
           Has(user_data, "music_path") /\ Has(user_data, "music_start_time")

\* The effects are confirmed a second time, after 'No, restart effects'.
C31_Witness ==
    /\ stage = "CONFIRM_EFFECTS"
    /\ budget < MaxDeviations
    /\ Has(user_data, "final_files_with_effects")

-----------------------------------------------------------------------------
(* Entering the effects sub-flow *)

\* C32: a step from CONFIRM_FINAL_MEDIA to CHOOSE_EFFECTS is taken only when
\* a file of the normalized batch final_files is a video.
C32_EffectsEnteredOnlyWithVideo ==
    [][(stage = "CONFIRM_FINAL_MEDIA" /\ stage' = "CHOOSE_EFFECTS")
          => any_video(user_data["final_files"])]_vars

-----------------------------------------------------------------------------
(* Cancel while a login code is asked for *)

\* C33: the cancel button pressed in AUTH_2FA or AUTH_SMS leaves the session
\* at MEDIA_TYPE although no login was attempted in that step and none has
\* succeeded since /start.
C33_CancelInAuthSkipsLogin ==
    (last.from \in AuthStages /\ last.ev = Text(CancelText)) =>
        /\ stage = "MEDIA_TYPE"
        /\ ~authenticated
        /\ \A i \in 1..Len(last.calls) : last.calls[i].op # "login"

\* A batch is published in a session whose login never succeeded.
C33_Witness ==
    /\ ~authenticated
    /\ \E i \in 1..Len(last.calls) : last.calls[i].op \in UploadOps

-----------------------------------------------------------------------------
(* The session at MEDIA_TYPE *)

\* C34: whenever the conversation is at MEDIA_TYPE, user_data is empty.
C34_EmptyAtMediaType == (stage = "MEDIA_TYPE") => user_data = EmptyDict

\* MEDIA_TYPE reached by a login code accepted after a wrong one: the
\* attempt counter, set before, is gone.
C34_Witness ==
    /\ stage = "MEDIA_TYPE"
    /\ last.from \in AuthStages
    /\ last.msgs = <<"connected", "welcome", "choose_mode">>
    /\ user_data = EmptyDict

-----------------------------------------------------------------------------
(* The files at CAPTION *)

\* C35: whenever the conversation is at CAPTION, final_files is set, is not
\* empty and has as many files as were validated; and no dispatch answers
\* that no final files were found.
C35_FinalFilesAtCaption ==
    /\ (stage = "CAPTION") =>
           /\ Has(user_data, "final_files")
           /\ user_data["final_files"] # <<>>
           /\ Len(user_data["final_files"]) = Len(user_data["processed"])
    /\ \A i \in 1..Len(last.msgs) : last.msgs[i] # "no_final_files"

\* CAPTION reached with an album of a photo and a video whose effects were confirmed.
C35_Witness ==
    /\ stage = "CAPTION"
    /\ last.fn = "handle_effects_confirmation"
    /\ Len(user_data["final_files"]) = 2
    /\ ~any_video(<<user_data["final_files"][1]>>)

-----------------------------------------------------------------------------
(* Effects of one round only *)

\* Every file has no effect applied or exactly the effects of the list.
OnlyEffects(files, effects) ==
    \A i \in 1..Len(files) : files[i].fx \in {<<>>, KnownEffects(effects)}

\* C36: effects are not compounded.  Where effects can be chosen or applied
\* (CONFIRM_FINAL_MEDIA and the effects sub-flow) final_files holds files
\* without effects; the files previewed at CONFIRM_EFFECTS and the files
\* that reach CAPTION carry the effects of the current selection, applied
\* once, or none.
C36_EffectsNotCompounded ==
    Has(user_data, "final_files") =>
        LET selected == Get(user_data, "selected_effects", <<>>)
        IN  /\ stage \in EffectStages \cup {"CONFIRM_FINAL_MEDIA"} =>
                   Uneffected(user_data["final_files"])
            /\ stage = "CONFIRM_EFFECTS" =>
                   OnlyEffects(user_data["final_files_with_effects"], selected)
            /\ stage = "CAPTION" => OnlyEffects(user_data["final_files"], selected)

\* A second round of effects is previewed: the round before was given up
\* with 'No, restart effects', and a video carries the new selection.
C36_Witness ==
    /\ stage = "CONFIRM_EFFECTS"
    /\ budget < MaxDeviations
    /\ \A i \in 1..Len(last.calls) : last.calls[i].ok
    /\ \E i \in 1..Len(user_data["final_files_with_effects"]) :
           /\ user_data["final_files_with_effects"][i].fx # <<>>
           /\ user_data["final_files_with_effects"][i].fx = user_data["selected_effects"]

-----------------------------------------------------------------------------
(* Effect names typed by the user *)

\* One video uploaded as it is, then effects chosen among three offered
\* names and a typed text that names no effect; nothing fails.
TypedEffectsEnv ==
    [media |-> {Video("video", 60)}, varied |-> 1, more |-> {}, sent |-> 1,
     effects |-> {"Glitch", "Vignette", "Rotate", Junk},
     interruptible |-> {END},
     deviations |-> 0,
     avoid |-> {<<"CONFIRM", Text("Yes, continue")>>, <<"MEDIA_TYPE", Text("Album")>>}
               \cup ({"AUTH_2FA", "AUTH_SMS"} \X CancelEvents)]

InitTypedEffects == InitOf(TypedEffectsEnv)

NextTypedEffects ==
    \/ Do_start(TypedEffectsEnv)
    \/ Do_cancel(TypedEffectsEnv)
    \/ Do_handle_2fa(TypedEffectsEnv)
    \/ Do_handle_sms(TypedEffectsEnv)
    \/ Do_handle_media_type(TypedEffectsEnv)
    \/ Do_handle_media(TypedEffectsEnv)
    \/ Do_handle_confirmation(TypedEffectsEnv)
    \/ Do_handle_final_confirmation(TypedEffectsEnv)
    \/ Do_choose_effects(TypedEffectsEnv)
    \/ Do_handle_effects_confirmation(TypedEffectsEnv)
    \/ Do_handle_caption_and_upload(TypedEffectsEnv)

SpecTypedEffects == InitTypedEffects /\ [][NextTypedEffects]_vars

\* The step is choose_effects taking a text that is no 'Done' and no cancel.
EffectTyped ==
    /\ stage = "CHOOSE_EFFECTS"
    /\ last'.fn = "choose_effects"
    /\ last'.ev.text # CancelText
    /\ ~Contains(last'.ev.text, "Done")

\* C37: a text typed in CHOOSE_EFFECTS that is not yet selected is appended
\* to selected_effects while fewer than three are selected, whether or not
\* it names an effect of the engine, and is refused at three; and the video
\* previewed at CONFIRM_EFFECTS carries the selected names the engine knows,
\* in the order of the selection, the unknown ones left out.
C37_UnknownEffectsStoredThenSkipped ==
    /\ [][EffectTyped =>
            LET selected == user_data["selected_effects"]
                choice == last'.ev.text
            IN  ~InSeq(selected, choice) =>
                    user_data'["selected_effects"] =
                        IF Len(selected) < MaxEffects THEN Append(selected, choice) ELSE selected]_vars
    /\ [](stage = "CONFIRM_EFFECTS" =>
            \A i \in 1..Len(user_data["final_files_with_effects"]) :
                user_data["final_files_with_effects"][i].fx
                    = SelectSeq(user_data["selected_effects"], LAMBDA x : x \in effects_map))

\* Three names are selected, the unknown one between two known ones, and the
\* video previewed carries the two known ones in their order.
C37_Witness ==
    /\ stage = "CONFIRM_EFFECTS"
    /\ Len(user_data["selected_effects"]) = MaxEffects
    /\ user_data["selected_effects"][2] = Junk
    /\ user_data["final_files_with_effects"][1].fx
           = <<user_data["selected_effects"][1], user_data["selected_effects"][3]>>

-----------------------------------------------------------------------------
(* The stage ASK_VIDEO_EFFECTS *)

\* C38: the conversation is never at ASK_VIDEO_EFFECTS, although the stage
\* is one of the enumeration and ask_video_effects is registered for every
\* text sent in it, the cancel button's included.
C38_AskVideoEffectsNeverCurrent ==
    /\ stage # "ASK_VIDEO_EFFECTS"
    /\ "ASK_VIDEO_EFFECTS" \in States
    /\ Handler("ASK_VIDEO_EFFECTS", Text(CancelText)) = "ask_video_effects"

\* ask_video_effects ran, for 'No, restart effects', and the conversation
\* is at CHOOSE_EFFECTS.
C38_Witness ==
    /\ stage = "CHOOSE_EFFECTS"
    /\ last.msgs[Len(last.msgs)] = "select_effects"
    /\ last.ev = Text("No, restart effects")


-----------------------------------------------------------------------------
(* Progress of a session to the upload *)

\* The members of States in the order of their values (IntEnum, auto()).
StageOrder ==
    << "AUTH_2FA", "AUTH_SMS", "MEDIA_TYPE", "RECEIVE_MEDIA", "CONFIRM",
       "ASK_IMAGE_WATERMARK", "RECEIVE_IMAGE_WATERMARK",
       "CHOOSE_IMG_WATERMARK_POSITION", "CHOOSE_IMG_WATERMARK_SCALE",
       "CHOOSE_IMG_WATERMARK_OPACITY", "CONFIRM_IMG_WATERMARK",
       "ASK_TEXT_WATERMARK", "RECEIVE_TEXT", "CHOOSE_FONT", "CHOOSE_FONT_SIZE",
       "CHOOSE_COLOR", "CHOOSE_TEXT_POSITION", "CONFIRM_TEXT_WATERMARK",
       "ASK_ADD_MUSIC", "RECEIVE_MUSIC", "RECEIVE_MUSIC_START_TIME",
       "CONFIRM_MUSIC", "CONFIRM_COMBINED_MEDIA", "CONFIRM_FINAL_MEDIA",
       "ASK_VIDEO_EFFECTS", "CHOOSE_EFFECTS", "CONFIRM_EFFECTS", "CAPTION" >>

Rank(st) == CHOOSE i \in 1..Len(StageOrder) : StageOrder[i] = st

\* The user who goes through with a session: photos and valid videos, single
\* or in an album, every feature accepted or declined, the effect toggled at
\* will; no collaborator call fails (deviations: none); from MEDIA_TYPE on
\* the user neither cancels nor restarts nor retries, sends what the stage
\* asks for, and the conversation does not idle into its timeout.
LiveEnv ==
    [media |-> {Photo(TRUE), Video("video", 60)}, varied |-> MaxSent, more |-> {}, sent |-> MaxSent,
     effects |-> {"Glitch"},
     interruptible |-> {END},
     deviations |-> 0,
     avoid |-> (States \ AuthStages) \X CancelEvents]

InitLive == InitOf(LiveEnv)

\* The user finishes intake: 'Done' is sent once the files stored are enough
\* for the mode (one file, two for an album).
Live_process_media ==
    /\ Get(user_data, "files", <<>>) # <<>>
    /\ ~AlbumTooSmall(Get(user_data, "mode", "none"), Get(user_data, "files", <<>>))
    /\ Do_process_media(LiveEnv)

NextLive ==
    \/ Do_start(LiveEnv)
    \/ Do_cancel(LiveEnv)
    \/ Do_handle_2fa(LiveEnv)
    \/ Do_handle_sms(LiveEnv)
    \/ Do_handle_media_type(LiveEnv)
    \/ Do_handle_media(LiveEnv)
    \/ Live_process_media
    \/ Do_handle_confirmation(LiveEnv)
    \/ Do_ask_image_watermark(LiveEnv)
    \/ Do_receive_image_watermark(LiveEnv)
    \/ Do_handle_img_position(LiveEnv)
    \/ Do_handle_img_scale(LiveEnv)
    \/ Do_generate_and_preview_image_watermark(LiveEnv)
    \/ Do_handle_img_watermark_confirmation(LiveEnv)
    \/ Do_handle_ask_text_watermark(LiveEnv)
    \/ Do_receive_text(LiveEnv)
    \/ Do_handle_font(LiveEnv)
    \/ Do_handle_font_size(LiveEnv)
    \/ Do_handle_color(LiveEnv)
    \/ Do_generate_and_preview_text_watermark(LiveEnv)
    \/ Do_handle_text_watermark_confirmation(LiveEnv)
    \/ Do_ask_add_music(LiveEnv)
    \/ Do_receive_music(LiveEnv)
    \/ Do_receive_music_start_time(LiveEnv)
    \/ Do_handle_music_confirmation(LiveEnv)
    \/ Do_handle_combined_media_confirmation(LiveEnv)
    \/ Do_handle_final_confirmation(LiveEnv)
    \/ Do_choose_effects(LiveEnv)
    \/ Do_handle_effects_confirmation(LiveEnv)
    \/ Do_handle_caption_and_upload(LiveEnv)

\* The user ends the selection of effects.
DoneSelecting ==
    /\ Do_choose_effects(LiveEnv)
    /\ last'.ev = Text("Done Selecting")

\* Every update the user sends is dispatched to its handler, one at a time,
\* and the user keeps answering (weak fairness of the steps); an effect can
\* be toggled for ever, and the user who finishes the selection sends 'Done
\* Selecting', which CHOOSE_EFFECTS accepts at any time.
SpecLive ==
    InitLive /\ [][NextLive]_vars /\ WF_vars(NextLive) /\ WF_vars(DoneSelecting)

\* The stages of a session, from MEDIA_TYPE on.
InSession == stage \in States \ AuthStages

\* handle_caption_and_upload called the Publisher and left the conversation
\* at MEDIA_TYPE.
Published ==
    /\ stage = "MEDIA_TYPE"
    /\ last.fn = "handle_caption_and_upload"
    /\ Uploads # {}

\* C39: when no collaborator call fails and the user, from MEDIA_TYPE on,
\* sends only what the stage asks for, finishes intake and the selection of
\* effects and never retries, restarts or cancels, every stage of the session
\* leads to the call of the Publisher followed by MEDIA_TYPE, and no step
\* before it leaves a stage for an earlier one.
C39_SessionReachesUpload ==
    /\ InSession ~> Published
    /\ [][InSession => (Published' \/ (stage' \in States /\ Rank(stage') >= Rank(stage)))]_vars

\* An album of two files was published, one of them a video with the effect
\* applied.
C39_Witness ==
    /\ Published
    /\ \E i \in 1..Len(last.calls) :
           /\ last.calls[i].op = "upload_album"
           /\ Len(last.calls[i].paths) = 2
           /\ \E j \in 1..2 : last.calls[i].paths[j].fx # <<>>

====
